---- MODULE Spec2Model ----
(***************************************************************************)
(* A model of the PDF verifier of airbender-zkpdf: the signature path      *)
(* (signature-validator, simple-asn1-nostd), the page-tree walker of the   *)
(* extractor and the composition in core.                                  *)
(*                                                                         *)
(* Bytes are integers 0..255.  Positions are the 0-based positions of the  *)
(* Rust code; At and Slice translate them to TLA+ sequences.               *)
(***************************************************************************)
EXTENDS Integers, Sequences, FiniteSets, TLC

(***************************************************************************)
(* Byte strings                                                            *)
(***************************************************************************)
AsciiLow == " !\"#$%&'()*+,-./0123456789:;<=>?@ABCDEFGHIJKLMNOPQRSTUVWXYZ[\\]^_"
AsciiHigh == "abcdefghijklmnopqrstuvwxyz{|}~"

\* the code of a one-character string
OrdTable ==
  [c \in {SubSeq(AsciiLow, i, i) : i \in 1..Len(AsciiLow)}
         \cup {SubSeq(AsciiHigh, i, i) : i \in 1..Len(AsciiHigh)}
         \cup {"\n", "\r", "\t", "\f"} |->
     IF c = "\n" THEN 10
     ELSE IF c = "\r" THEN 13
     ELSE IF c = "\t" THEN 9
     ELSE IF c = "\f" THEN 12
     ELSE IF \E i \in 1..Len(AsciiLow) : SubSeq(AsciiLow, i, i) = c
          THEN 31 + (CHOOSE i \in 1..Len(AsciiLow) : SubSeq(AsciiLow, i, i) = c)
          ELSE 96 + (CHOOSE i \in 1..Len(AsciiHigh) : SubSeq(AsciiHigh, i, i) = c)]

\* b"..." : the bytes of an ASCII literal
B(s) == [i \in 1..Len(s) |-> OrdTable[SubSeq(s, i, i)]]

At(data, i) == data[i + 1]
Slice(data, a, b) == SubSeq(data, a + 1, b)

RECURSIVE Concat(_)
Concat(ss) == IF ss = <<>> THEN <<>> ELSE Head(ss) \o Concat(Tail(ss))

MinOf(S) == CHOOSE x \in S : \A y \in S : x <= y

\* a local binding: v is computed once and handed to the body F
Let(v, F(_)) == F(v)

None == [some |-> FALSE]
Some(x) == [some |-> TRUE, v |-> x]

Ok(x) == [kind |-> "Ok", val |-> x]
Err(m) == [kind |-> "Err", err |-> m]
IsOk(r) == r.kind = "Ok"
IsErr(r) == r.kind = "Err"

\* the ? operator: a failure is returned as it is, a value is handed to F
Try(r, F(_)) == IF IsOk(r) THEN F(r.val) ELSE r

\* map_err with a message that replaces the error
MapErr(r, m) == IF IsErr(r) THEN Err(m) ELSE r

(***************************************************************************)
(* core / alloc library functions used by the signature locator            *)
(***************************************************************************)
\* core::str::from_utf8 succeeds: the well-formed UTF-8 byte sequences
\* (each lead byte is followed by exactly the continuation bytes its sequence needs)
Utf8Need(b) ==
  IF b < 128 THEN 0
  ELSE IF b \in 194..223 THEN 1
  ELSE IF b \in 224..239 THEN 2
  ELSE IF b \in 240..244 THEN 3
  ELSE -1

Utf8Second(b) ==
  IF b = 224 THEN 160..191
  ELSE IF b = 237 THEN 128..159
  ELSE IF b = 240 THEN 144..191
  ELSE IF b = 244 THEN 128..143
  ELSE 128..191

IsUtf8(s) ==
  LET n == Len(s)
      IsCont(k) == At(s, k) \in 128..191
      LeadOk(i) ==
        LET need == Utf8Need(At(s, i))
        IN  /\ need >= 0
            /\ i + need < n
            /\ \A k \in (i + 1)..(i + need) : IsCont(k)
            /\ need >= 1 => At(s, i + 1) \in Utf8Second(At(s, i))
            /\ i + need + 1 < n => ~IsCont(i + need + 1)
  IN  /\ n > 0 => ~IsCont(0)
      /\ \A i \in 0..(n - 1) : ~IsCont(i) => LeadOk(i)

\* char::is_whitespace on the ASCII range (TAB, LF, VT, FF, CR, SP)
IsStrWhitespace(b) == b \in {9, 10, 11, 12, 13, 32}

IsAsciiDigit(b) == b \in 48..57

\* str::split_whitespace
RECURSIVE SplitFrom(_, _, _, _)
SplitFrom(s, i, cur, acc) ==
  IF i >= Len(s) THEN (IF cur = <<>> THEN acc ELSE Append(acc, cur))
  ELSE IF IsStrWhitespace(At(s, i))
    THEN SplitFrom(s, i + 1, <<>>, IF cur = <<>> THEN acc ELSE Append(acc, cur))
    ELSE SplitFrom(s, i + 1, Append(cur, At(s, i)), acc)

split_whitespace(s) == SplitFrom(s, 0, <<>>, <<>>)

\* str::trim
RECURSIVE TrimStart(_)
TrimStart(s) ==
  IF s # <<>> /\ IsStrWhitespace(Head(s)) THEN TrimStart(Tail(s)) ELSE s

RECURSIVE TrimEnd(_)
TrimEnd(s) ==
  IF s # <<>> /\ IsStrWhitespace(s[Len(s)]) THEN TrimEnd(SubSeq(s, 1, Len(s) - 1)) ELSE s

trim(s) == TrimEnd(TrimStart(s))

(***************************************************************************)
(* Bounds of the model                                                     *)
(***************************************************************************)
\* the largest usize the model represents (the machine word, scaled down)
MaxUsize == 65535

Panic(m) == [kind |-> "Panic", err |-> m]
IsPanic(r) == r.kind = "Panic"

\* str::parse::<usize>: an optional '+', then one or more decimal digits, no overflow
RECURSIVE ParseDigits(_, _, _)
ParseDigits(s, i, acc) ==
  IF i >= Len(s) THEN Ok(acc)
  ELSE IF ~IsAsciiDigit(At(s, i)) THEN Err("Failed to parse as usize")
  ELSE LET next == acc * 10 + (At(s, i) - 48)
       IN  IF next > MaxUsize THEN Err("Failed to parse as usize")
           ELSE ParseDigits(s, i + 1, next)

parse_usize(s) ==
  LET digits == IF s # <<>> /\ Head(s) = 43 THEN Tail(s) ELSE s
  IN  IF digits = <<>> THEN Err("Failed to parse as usize") ELSE ParseDigits(digits, 0, 0)

HexVal(b) ==
  IF b \in 48..57 THEN b - 48
  ELSE IF b \in 65..70 THEN b - 55
  ELSE IF b \in 97..102 THEN b - 87
  ELSE -1

\* hex::decode: an even number of hex digits, two per byte
hex_decode(s) ==
  IF Len(s) % 2 = 1 THEN Err("Failed to decode hex: OddLength")
  ELSE IF \E i \in 1..Len(s) : HexVal(s[i]) < 0
    THEN Err("Failed to decode hex: InvalidHexCharacter")
  ELSE Ok([i \in 1..(Len(s) \div 2) |-> HexVal(s[2 * i - 1]) * 16 + HexVal(s[2 * i])])

(***************************************************************************)
(* signature-validator/src/signed_bytes_extractor.rs                       *)
(***************************************************************************)
ByteRangePattern == B("/ByteRange")
ContentsPattern == B("/Contents")

\* haystack.windows(needle.len()).position(|w| w == needle)
find_pattern_internal(haystack, needle) ==
  LET n == Len(needle)
      hits == {i \in 0..(Len(haystack) - n) : Slice(haystack, i, i + n) = needle}
  IN  IF hits = {} THEN None ELSE Some(MinOf(hits))

\* haystack[start..].iter().position(|&b| b == needle).map(|pos| start + pos)
\* (every caller passes start <= haystack.len())
find_byte_internal(haystack, needle, start) ==
  LET hits == {i \in start..(Len(haystack) - 1) : At(haystack, i) = needle}
  IN  IF hits = {} THEN None ELSE Some(MinOf(hits))

ByteRangeOf(parts) ==
  LET r == [i \in 1..4 |-> parse_usize(parts[i])]
  IN  IF \E i \in 1..4 : ~IsOk(r[i])
      THEN r[MinOf({i \in 1..4 : ~IsOk(r[i])})]
      ELSE Ok([offset1 |-> r[1].val, length1 |-> r[2].val,
               offset2 |-> r[3].val, length2 |-> r[4].val])

extract_byte_range(pdf_bytes) ==
  LET byte_range_pos == find_pattern_internal(pdf_bytes, ByteRangePattern)
  IN  IF ~byte_range_pos.some THEN Err("ByteRange not found")
  ELSE
  LET start == byte_range_pos.v + Len(ByteRangePattern)
      bracket_start == find_byte_internal(pdf_bytes, 91, start)
  IN  IF ~bracket_start.some THEN Err("ByteRange opening bracket not found")
  ELSE
  LET bracket_end == find_byte_internal(pdf_bytes, 93, bracket_start.v)
  IN  IF ~bracket_end.some THEN Err("ByteRange closing bracket not found")
  ELSE
  LET byte_range_str == Slice(pdf_bytes, bracket_start.v + 1, bracket_end.v)
  IN  IF ~IsUtf8(byte_range_str) THEN Err("Invalid UTF-8 in ByteRange")
  ELSE
  LET parts == split_whitespace(byte_range_str)
  IN  IF Len(parts) # 4 THEN Err("ByteRange should have exactly 4 values")
      ELSE ByteRangeOf(parts)

extract_signed_data(pdf_bytes, byte_range) ==
  IF byte_range.offset1 + byte_range.length1 > MaxUsize
    THEN Panic("attempt to add with overflow")
  ELSE
  LET end1 == byte_range.offset1 + byte_range.length1
  IN  IF end1 > Len(pdf_bytes) THEN Err("First ByteRange segment out of bounds")
  ELSE IF byte_range.offset2 + byte_range.length2 > MaxUsize
    THEN Panic("attempt to add with overflow")
  ELSE
  LET end2 == byte_range.offset2 + byte_range.length2
  IN  IF end2 > Len(pdf_bytes) THEN Err("Second ByteRange segment out of bounds")
      ELSE Ok(Slice(pdf_bytes, byte_range.offset1, end1)
              \o Slice(pdf_bytes, byte_range.offset2, end2))

\* the position of the '<' and of the '>' that bracket the hex string read
\* after /Contents, or the error extract_signature_hex returns
locate_signature_hex(pdf_bytes, byte_range) ==
  LET sig_start == byte_range.offset1 + byte_range.length1
      sig_end == byte_range.offset2
  IN  IF sig_start >= sig_end \/ sig_end > Len(pdf_bytes)
        THEN Err("Invalid signature position")
  ELSE
  LET byte_range_pos == find_pattern_internal(pdf_bytes, ByteRangePattern)
  IN  IF ~byte_range_pos.some THEN Err("ByteRange not found")
  ELSE
  LET search_start == IF byte_range_pos.v > 500 THEN byte_range_pos.v - 500 ELSE 0
      found == find_pattern_internal(Slice(pdf_bytes, search_start, Len(pdf_bytes)),
                                     ContentsPattern)
  IN  IF ~found.some THEN Err("/Contents not found near ByteRange")
  ELSE
  LET contents_pos == search_start + found.v
      lt == find_byte_internal(pdf_bytes, 60, contents_pos + Len(ContentsPattern))
  IN  IF ~lt.some THEN Err("Signature hex start not found")
  ELSE
  LET hex_start == lt.v + 1
      hex_end == find_byte_internal(pdf_bytes, 62, hex_start)
  IN  IF ~hex_end.some THEN Err("Signature hex end not found")
      ELSE Ok([hex_start |-> hex_start, hex_end |-> hex_end.v])

extract_signature_hex(pdf_bytes, byte_range) ==
  LET at == locate_signature_hex(pdf_bytes, byte_range)
  IN  IF ~IsOk(at) THEN at
      ELSE LET hex_str == Slice(pdf_bytes, at.val.hex_start, at.val.hex_end)
           IN  IF ~IsUtf8(hex_str) THEN Err("Invalid UTF-8 in signature hex")
               ELSE Ok(hex_str)

hex_to_bytes_internal(hex_str) ==
  LET t == trim(hex_str)
  IN  hex_decode(IF Len(t) % 2 = 1 THEN <<48>> \o t ELSE t)

get_signature_der(pdf_bytes) ==
  Try(extract_byte_range(pdf_bytes), LAMBDA byte_range :
  Try(extract_signed_data(pdf_bytes, byte_range), LAMBDA signed_data :
  Try(extract_signature_hex(pdf_bytes, byte_range), LAMBDA signature_hex :
  Try(hex_to_bytes_internal(signature_hex), LAMBDA signature_der :
    Ok([signature_der |-> signature_der, signed_data |-> signed_data])))))

(***************************************************************************)
(* simple-asn1-nostd/src/lib.rs                                            *)
(***************************************************************************)
\* core::mem::size_of::<usize>() on the riscv32 target
SizeOfUsize == 4

\* SignedBigInt::from_signed_bytes_be
RECURSIVE InvertAddOne(_, _)
InvertAddOne(bytes, carry) ==
  IF bytes = <<>> THEN <<>>
  ELSE LET n == Len(bytes)
           sum == (255 - bytes[n]) + carry
       IN  Append(InvertAddOne(SubSeq(bytes, 1, n - 1), IF sum > 255 THEN 1 ELSE 0),
                  sum % 256)

from_signed_bytes_be(bytes) ==
  IF bytes = <<>> THEN [bytes |-> <<0>>, negative |-> FALSE]
  ELSE IF bytes[1] >= 128 THEN [bytes |-> InvertAddOne(bytes, 1), negative |-> TRUE]
  ELSE [bytes |-> bytes, negative |-> FALSE]

decode_class(i) ==
  LET c == i \div 64
  IN  IF c = 0 THEN "Universal"
      ELSE IF c = 1 THEN "Application"
      ELSE IF c = 2 THEN "ContextSpecific"
      ELSE "Private"

RECURSIVE Base127Loop(_, _, _)
Base127Loop(i, index, res) ==
  IF index >= Len(i) THEN Err("Incomplete")
  ELSE LET nextbyte == At(i, index)
           r == res * 128 + (nextbyte % 128)
       IN  IF nextbyte < 128 THEN Ok([val |-> r, index |-> index + 1])
           ELSE Base127Loop(i, index + 1, r)

decode_base127(i, index) == Base127Loop(i, index, 0)

decode_tag(i, index) ==
  IF index >= Len(i) THEN Err("Incomplete")
  ELSE LET tagbyte == At(i, index)
           constructed == (tagbyte \div 32) % 2 = 1
           class == decode_class(tagbyte)
           basetag == tagbyte % 32
       IN  IF basetag = 31
           THEN LET res == decode_base127(i, index + 1)
                IN  IF ~IsOk(res) THEN res
                    ELSE Ok([tag |-> res.val.val, constructed |-> constructed,
                             class |-> class, index |-> res.val.index])
           ELSE Ok([tag |-> basetag, constructed |-> constructed,
                    class |-> class, index |-> index + 1])

\* the length bytes of the long form; a value beyond every buffer of the model
\* saturates at MaxUsize (the caller rejects any length that passes the buffer end)
RECURSIVE LengthLoop(_, _, _, _)
LengthLoop(i, index, lenlen, res) ==
  IF lenlen = 0 THEN Ok([len |-> res, index |-> index])
  ELSE IF index >= Len(i) THEN Err("Incomplete")
  ELSE LET r == res * 256 + At(i, index)
       IN  LengthLoop(i, index + 1, lenlen - 1, IF r > MaxUsize THEN MaxUsize ELSE r)

decode_length(i, index) ==
  IF index >= Len(i) THEN Err("Incomplete")
  ELSE LET startbyte == At(i, index)
       IN  IF startbyte >= 128
           THEN IF startbyte % 128 > SizeOfUsize THEN Err("LengthTooLarge")
                ELSE LengthLoop(i, index + 1, startbyte % 128, 0)
           ELSE Ok([len |-> startbyte, index |-> index + 1])

PrintableChars ==
  {b \in 0..127 : \/ b \in 65..90 \/ b \in 97..122 \/ b \in 48..57
                  \/ b \in {39, 40, 41, 43, 44, 45, 46, 47, 58, 61, 63, 32}}

RECURSIVE OidLoop(_, _, _)
OidLoop(body, bindex, oidres) ==
  IF bindex >= Len(body) THEN Ok(oidres)
  ELSE LET c == decode_base127(body, bindex)
       IN  IF ~IsOk(c) THEN c
           ELSE OidLoop(body, c.val.index, Append(oidres, c.val.val))

DecodeOid(body) ==
  IF body = <<>> THEN Err("Incomplete")
  ELSE LET b0 == body[1]
           value1 == IF b0 >= 40 THEN (IF b0 < 80 THEN 1 ELSE 2) ELSE 0
           value2 == IF b0 >= 40 THEN (IF b0 < 80 THEN b0 - 40 ELSE b0 - 80) ELSE b0
       IN  OidLoop(body, 1, <<value1, value2>>)

RECURSIVE from_der_(_, _)

\* one universal-class block of from_der_'s match on the tag
UniversalBlock(tag, class, constructed, soff, body, inner_offset) ==
  CASE tag = 1 ->
         IF Len(body) # 1 THEN Err("BadBooleanLength")
         ELSE Ok([t |-> "Boolean", off |-> soff, b |-> body[1] # 0])
    [] tag = 2 -> Ok([t |-> "Integer", off |-> soff, int |-> from_signed_bytes_be(body)])
    [] tag = 3 ->
         IF body = <<>>
         THEN Ok([t |-> "BitString", off |-> soff, nbits |-> 0, bits |-> <<>>])
         ELSE IF (Len(body) - 1) * 8 < body[1] THEN Err("InvalidBitStringLength")
         ELSE Ok([t |-> "BitString", off |-> soff,
                  nbits |-> (Len(body) - 1) * 8 - body[1], bits |-> Tail(body)])
    [] tag = 4 -> Ok([t |-> "OctetString", off |-> soff, bytes |-> body])
    [] tag = 5 -> Ok([t |-> "Null", off |-> soff])
    [] tag = 6 ->
         LET o == DecodeOid(body)
         IN  IF ~IsOk(o) THEN o
             ELSE Ok([t |-> "ObjectIdentifier", off |-> soff, oid |-> o.val])
    [] tag \in {12, 20, 28, 30} ->
         IF ~IsUtf8(body) THEN Err("UTF8DecodeFailure")
         ELSE Ok([t |-> IF tag = 12 THEN "UTF8String"
                        ELSE IF tag = 20 THEN "TeletexString"
                        ELSE IF tag = 28 THEN "UniversalString" ELSE "BMPString",
                  off |-> soff, str |-> body])
    [] tag \in {16, 17} ->
         Let(from_der_(body, inner_offset), LAMBDA items :
           IF ~IsOk(items) THEN items
           ELSE Ok([t |-> IF tag = 16 THEN "Sequence" ELSE "Set",
                    off |-> soff, items |-> items.val]))
    [] tag = 19 ->
         IF \E k \in 1..Len(body) : body[k] \notin PrintableChars
         THEN Err("PrintableStringDecodeFailure")
         ELSE Ok([t |-> "PrintableString", off |-> soff, str |-> body])
    [] tag = 22 -> Ok([t |-> "IA5String", off |-> soff, str |-> body])
    [] tag = 23 -> Ok([t |-> "UTCTime", off |-> soff, bytes |-> body])
    [] tag = 24 -> Ok([t |-> "GeneralizedTime", off |-> soff, bytes |-> body])
    [] OTHER -> Ok([t |-> "Unknown", class |-> class, constructed |-> constructed,
                    off |-> soff, tag |-> tag, body |-> body])

\* one block of from_der_'s loop, given its decoded header
DerBlock(tag, class, constructed, soff, body, inner_offset) ==
  IF class # "Universal"
  THEN Let(IF constructed THEN from_der_(body, inner_offset) ELSE Err("primitive"),
           LAMBDA items :
             IF constructed /\ IsOk(items) /\ Len(items.val) = 1
             THEN Ok([t |-> "Explicit", class |-> class, off |-> soff, tag |-> tag,
                      inner |-> items.val[1]])
             ELSE Ok([t |-> "Unknown", class |-> class, constructed |-> constructed,
                      off |-> soff, tag |-> tag, body |-> body]))
  ELSE UniversalBlock(tag, class, constructed, soff, body, inner_offset)

\* the tag and length that open the block at index, and where its body lies
DerHeader(i, index) ==
  Try(decode_tag(i, index), LAMBDA tg :
  Try(decode_length(i, tg.index), LAMBDA ln :
    IF ln.index + ln.len > Len(i) THEN Err("Incomplete")
    ELSE Ok([tag |-> tg.tag, class |-> tg.class, constructed |-> tg.constructed,
             at |-> index, idx |-> ln.index, len |-> ln.len])))

\* the headers of the blocks that follow one another in the buffer, up to the
\* first header that does not decode
RECURSIVE HeaderLoop(_, _, _)
HeaderLoop(i, index, acc) ==
  IF index >= Len(i) THEN [hdrs |-> acc, err |-> None]
  ELSE Let(DerHeader(i, index), LAMBDA h :
         IF ~IsOk(h) THEN [hdrs |-> acc, err |-> Some(h)]
         ELSE HeaderLoop(i, h.val.idx + h.val.len, Append(acc, h.val)))

\* the loop of from_der_: the blocks are decoded in order, each with its nested
\* blocks, and the first failure ends the parse
from_der_(i, start_offset) ==
  Let(HeaderLoop(i, 0, <<>>), LAMBDA scan :
  Let([k \in 1..Len(scan.hdrs) |->
         Let(scan.hdrs[k], LAMBDA h :
           DerBlock(h.tag, h.class, h.constructed, start_offset + h.at,
                    Slice(i, h.idx, h.idx + h.len), start_offset + h.idx))],
      LAMBDA blocks :
  Let({k \in 1..Len(blocks) : ~IsOk(blocks[k])}, LAMBDA bad :
    IF bad # {} THEN blocks[MinOf(bad)]
    ELSE IF scan.err.some THEN scan.err.v
    ELSE IF blocks = <<>> THEN Err("EmptyBuffer")
    ELSE Ok([k \in 1..Len(blocks) |-> blocks[k].val]))))

from_der(i) == from_der_(i, 0)

(***************************************************************************)
(* signature-validator/src/pkcs7_reference.rs                              *)
(***************************************************************************)
OidSignedData == <<1, 2, 840, 113549, 1, 7, 2>>
OidMessageDigest == <<1, 2, 840, 113549, 1, 9, 4>>
OidRsaEncryption == <<1, 2, 840, 113549, 1, 1, 1>>
OidSha1 == <<1, 3, 14, 3, 2, 26>>
OidSha256 == <<2, 16, 840, 1, 101, 3, 4, 2, 1>>
OidSha384 == <<2, 16, 840, 1, 101, 3, 4, 2, 2>>
OidSha512 == <<2, 16, 840, 1, 101, 3, 4, 2, 3>>

IsSeq(b) == b.t = "Sequence"
IsSet(b) == b.t = "Set"
IsExplicitCtx(b) == b.t = "Explicit" /\ b.class = "ContextSpecific"
IsUnknownCtx(b) == b.t = "Unknown" /\ b.class = "ContextSpecific"

extract_content_info(blocks) ==
  IF Len(blocks) >= 1 /\ IsSeq(blocks[1])
  THEN LET children == blocks[1].items
       IN  IF children[1].t = "ObjectIdentifier"
           THEN IF children[1].oid = OidSignedData THEN Ok(children)
                ELSE Err("Not a SignedData contentType")
           ELSE Err("Missing contentType OID")
  ELSE Err("Top-level not a SEQUENCE")

extract_signed_children(children) ==
  IF Len(children) < 2 THEN Err("Missing SignedData content")
  ELSE LET block == children[2]
       IN  IF IsExplicitCtx(block)
           THEN IF IsSeq(block.inner) THEN Ok(block.inner.items)
                ELSE Err("Explicit SignedData not a SEQUENCE")
           ELSE IF IsUnknownCtx(block)
           THEN Try(MapErr(from_der(block.body), "Inner SignedData parse error"),
                    LAMBDA parsed :
                      IF IsSeq(parsed[1]) THEN Ok(parsed[1].items)
                      ELSE Err("Inner SignedData not a SEQUENCE"))
           ELSE IF IsSeq(block) THEN Ok(block.items)
           ELSE Err("Unexpected SignedData format")

extract_signer_info(signed_data_seq) ==
  IF signed_data_seq # <<>> /\ IsSet(signed_data_seq[Len(signed_data_seq)])
  THEN LET items == signed_data_seq[Len(signed_data_seq)].items
       IN  IF items # <<>> /\ IsSeq(items[1]) THEN Ok(items[1].items)
           ELSE Err("Expected SignerInfo SEQUENCE in SignerInfo SET")
  ELSE Err("Expected SignerInfo SET in SignedData")

extract_issuer_and_digest_algorithm(signer_info) ==
  IF Len(signer_info) < 2 THEN Panic("index out of bounds: signer_info[1]")
  ELSE IF ~(IsSeq(signer_info[2]) /\ Len(signer_info[2].items) = 2)
    THEN Err("Expected issuerAndSerialNumber SEQUENCE")
  ELSE IF signer_info[2].items[2].t # "Integer"
    THEN Err("Expected serialNumber INTEGER")
  ELSE IF Len(signer_info) < 3 THEN Panic("index out of bounds: signer_info[2]")
  ELSE IF ~IsSeq(signer_info[3]) THEN Err("Digest algorithm missing")
  ELSE IF signer_info[3].items[1].t # "ObjectIdentifier"
    THEN Err("Invalid digestAlgorithm in SignerInfo")
  ELSE Ok([signer_serial |-> signer_info[2].items[2].int.bytes,
           digest_oid |-> signer_info[3].items[1].oid])

\* the DER length octets extract_signed_attributes_der writes for a content length
SetLength(len) ==
  IF len < 128 THEN <<len>>
  ELSE IF len <= 255 THEN <<129, len>>
  ELSE <<130, (len \div 256) % 256, len % 256>>

IsSignedAttrs(block) ==
  IsUnknownCtx(block) /\ block.constructed /\ block.tag = 0

extract_signed_attributes_der(signer_info) ==
  LET hits == {k \in 1..Len(signer_info) : IsSignedAttrs(signer_info[k])}
  IN  IF hits = {} THEN Err("signedAttrs [0] not found")
      ELSE LET content == signer_info[MinOf(hits)].body
           IN  Ok(<<49>> \o SetLength(Len(content)) \o content)

compute_signed_algorithm(digest_oid) ==
  IF digest_oid = OidSha256 THEN Ok("Sha256WithRsaEncryption")
  ELSE IF digest_oid = OidSha384 THEN Ok("Sha384WithRsaEncryption")
  ELSE IF digest_oid = OidSha512 THEN Ok("Sha512WithRsaEncryption")
  ELSE IF digest_oid = OidSha1 THEN Ok("Sha1WithRsaEncryption")
  ELSE Err("Unsupported digest OID")

extract_signature(signer_info) ==
  LET hits == {k \in 1..Len(signer_info) :
                 signer_info[k].t = "OctetString" /\ k - 1 >= 4}
  IN  IF hits = {} THEN Err("EncryptedDigest (signature) not found")
      ELSE Ok(signer_info[MinOf(hits)].bytes)

RECURSIVE MessageDigestLoop(_, _)
MessageDigestLoop(candidates, k) ==
  IF k > Len(candidates)
    THEN Err("messageDigest attribute (OID 1.2.840.113549.1.9.4) not found")
  ELSE LET attr == candidates[k]
       IN  IF IsSeq(attr) /\ attr.items[1].t = "ObjectIdentifier"
              /\ attr.items[1].oid = OidMessageDigest
           THEN IF Len(attr.items) < 2 THEN Panic("index out of bounds: items[1]")
                ELSE IF ~IsSet(attr.items[2]) THEN Err("messageDigest missing inner Set")
                ELSE IF attr.items[2].items[1].t # "OctetString"
                  THEN Err("messageDigest value not an OctetString")
                ELSE Ok(attr.items[2].items[1].bytes)
           ELSE MessageDigestLoop(candidates, k + 1)

\* extract_message_digest taking a missing attribute for an empty digest
extract_message_digest_lenient(attrs) ==
  LET found == MessageDigestLoop(IF Len(attrs) = 1 /\ IsSet(attrs[1]) THEN attrs[1].items
                                 ELSE attrs, 1)
  IN  IF IsErr(found) THEN Ok(<<>>) ELSE found

extract_message_digest(attrs) ==
  MessageDigestLoop(IF Len(attrs) = 1 /\ IsSet(attrs[1]) THEN attrs[1].items ELSE attrs, 1)

get_signature_data(signed_data_seq) ==
  Try(extract_signer_info(signed_data_seq), LAMBDA signer_info_items :
  Try(extract_issuer_and_digest_algorithm(signer_info_items), LAMBDA ids :
  Try(extract_signed_attributes_der(signer_info_items), LAMBDA signed_attrs_der :
  Try(compute_signed_algorithm(ids.digest_oid), LAMBDA signed_algo :
  Try(MapErr(from_der(signed_attrs_der), "signedAttrs parse error"), LAMBDA signed_attrs :
  Try(MapErr(extract_message_digest(signed_attrs), "Failed to get messageDigest"),
      LAMBDA expected_message_digest :
  Try(extract_signature(signer_info_items), LAMBDA signature :
    Ok([signature |-> signature,
        signer_serial |-> ids.signer_serial,
        signed_attrs_der |-> signed_attrs_der,
        signed_algo |-> signed_algo,
        expected_message_digest |-> expected_message_digest,
        digest_oid_vec |-> Some(ids.digest_oid)]))))))))

IsCertsBlock(block) ==
  (IsExplicitCtx(block) \/ IsUnknownCtx(block)) /\ block.tag = 0

\* the certificates of the block that find_certificates picked
CertificatesOf(cert_block) ==
  IF cert_block.t = "Unknown"
  THEN Try(MapErr(from_der(cert_block.body), "Cert wrapper parse error"),
           LAMBDA parsed_inner :
             IF Len(parsed_inner) = 1 /\ IsSet(parsed_inner[1])
               THEN Ok(parsed_inner[1].items)
             ELSE IF Len(parsed_inner) = 1 /\ IsSeq(parsed_inner[1])
               THEN Ok(parsed_inner[1].items)
             ELSE IF \A k \in 1..Len(parsed_inner) : IsSeq(parsed_inner[k])
               THEN Ok(parsed_inner)
             ELSE Err("Unexpected structure inside implicit certificate block"))
  ELSE IF IsSet(cert_block.inner) THEN Ok(cert_block.inner.items)
  ELSE IF IsSeq(cert_block.inner) THEN Ok(<<cert_block.inner>>)
  ELSE Err("Expected SET or SEQUENCE inside Explicit certificate block")

find_certificates(signed_data_seq) ==
  Let({k \in 1..Len(signed_data_seq) : IsCertsBlock(signed_data_seq[k])}, LAMBDA hits :
    IF hits = {} THEN Ok(<<>>)
    ELSE CertificatesOf(signed_data_seq[MinOf(hits)]))

RECURSIVE CorrectTbsLoop(_, _, _)
CorrectTbsLoop(certificates, signed_serial_number, k) ==
  IF k > Len(certificates) THEN Err("No matching certificate found")
  ELSE IF ~IsSeq(certificates[k]) THEN Err("Certificate not a SEQUENCE")
  ELSE
  LET cert_fields == certificates[k].items
  IN  IF ~(IsExplicitCtx(cert_fields[1]) \/ IsSeq(cert_fields[1]))
        THEN Err("tbsCertificate not found")
  ELSE
  LET tbs_fields == IF IsExplicitCtx(cert_fields[1]) THEN cert_fields
                    ELSE cert_fields[1].items
      serial_idx == IF IsExplicitCtx(tbs_fields[1]) /\ tbs_fields[1].tag = 0
                    THEN 1 ELSE 0
  IN  IF serial_idx >= Len(tbs_fields) THEN Panic("index out of bounds: tbs_fields[1]")
      ELSE IF tbs_fields[serial_idx + 1].t # "Integer" THEN Err("Serial number not found")
      ELSE IF tbs_fields[serial_idx + 1].int.bytes = signed_serial_number
        THEN Ok(tbs_fields)
      ELSE CorrectTbsLoop(certificates, signed_serial_number, k + 1)

get_correct_tbs(certificates, signed_serial_number) ==
  CorrectTbsLoop(certificates, signed_serial_number, 1)

IsRsaSpki(b) ==
  /\ IsSeq(b)
  /\ IsSeq(b.items[1])
  /\ b.items[1].items[1].t = "ObjectIdentifier"
  /\ b.items[1].items[1].oid = OidRsaEncryption

find_subject_public_key_info(tbs_fields) ==
  LET hits == {k \in 1..Len(tbs_fields) : IsRsaSpki(tbs_fields[k])}
  IN  IF hits = {} THEN Err("subjectPublicKeyInfo not found")
      ELSE Ok(tbs_fields[MinOf(hits)].items)

extract_public_key_bitstring(spki_fields) ==
  IF Len(spki_fields) < 2 THEN Panic("index out of bounds: spki_fields[1]")
  ELSE IF spki_fields[2].t = "BitString" THEN Ok(spki_fields[2].bits)
  ELSE Err("Expected BIT STRING for public key")

parse_rsa_public_key(bitstring) ==
  Try(MapErr(from_der(bitstring), "RSAPublicKey parse error"), LAMBDA rsa_blocks :
    IF IsSeq(rsa_blocks[1]) THEN Ok(rsa_blocks[1].items)
    ELSE Err("RSAPublicKey not a SEQUENCE"))

extract_exponent(rsa_sequence) ==
  IF Len(rsa_sequence) < 2 THEN Panic("index out of bounds: rsa_sequence[1]")
  ELSE IF rsa_sequence[2].t = "Integer" THEN Ok(rsa_sequence[2].int.bytes)
  ELSE Err("Exponent not found")

extract_modulus(rsa_sequence) ==
  IF rsa_sequence[1].t = "Integer"
  THEN LET bytes == rsa_sequence[1].int.bytes
       IN  IF Len(bytes) > 1 /\ bytes[1] = 0 THEN Ok(Tail(bytes)) ELSE Ok(bytes)
  ELSE Err("Modulus not found")

extract_pubkey_components(signed_data_seq, signed_serial_number) ==
  Try(find_certificates(signed_data_seq), LAMBDA certificates :
  Try(MapErr(get_correct_tbs(certificates, signed_serial_number),
             "Failed to get correct tbsCertificate"), LAMBDA tbs_fields :
  Try(find_subject_public_key_info(tbs_fields), LAMBDA spki_fields :
  Try(extract_public_key_bitstring(spki_fields), LAMBDA public_key_bitstring :
  Try(parse_rsa_public_key(public_key_bitstring), LAMBDA rsa_sequence :
  Try(extract_modulus(rsa_sequence), LAMBDA modulus :
  Try(extract_exponent(rsa_sequence), LAMBDA exponent :
    Ok([modulus |-> modulus, exponent |-> exponent]))))))))

parse_signed_data(der_bytes) ==
  Try(MapErr(from_der(der_bytes), "DER parse error"), LAMBDA blocks :
  Try(extract_content_info(blocks), LAMBDA content_info :
  Try(extract_signed_children(content_info), LAMBDA signed_children :
  Try(get_signature_data(signed_children), LAMBDA signature_data :
  Try(extract_pubkey_components(signed_children, signature_data.signer_serial),
      LAMBDA key :
    Ok([modulus |-> Some(key.modulus),
        exponent |-> Some(key.exponent),
        signature |-> signature_data.signature,
        signed_attrs_message_digest |-> Some(signature_data.expected_message_digest),
        actual_message_digest |-> None,
        sig_algorithm |-> signature_data.signed_algo,
        digest_algorithm |-> signature_data.digest_oid_vec,
        signed_attrs_der |-> Some(signature_data.signed_attrs_der)]))))))

(***************************************************************************)
(* Digests and RSA.  SHA-1/2 and modular exponentiation are beyond TLC's   *)
(* integers: a digest is the algorithm's code followed by a two-byte       *)
(* position-weighted checksum (which, like SHA, changes whenever one byte  *)
(* of the data changes), and RSA's public permutation s^e mod n is a       *)
(* bijection on byte strings of the modulus length determined by the key.  *)
(***************************************************************************)
RECURSIVE WeightedSum(_, _, _)
WeightedSum(data, lo, hi) ==
  IF lo > hi THEN 0
  ELSE IF lo = hi THEN data[lo] * ((lo % 251) + 1)
  ELSE LET mid == (lo + hi) \div 2
       IN  WeightedSum(data, lo, mid) + WeightedSum(data, mid + 1, hi)

\* a checksum of the length alone
ChecksumOfLength(data) == <<Len(data) \div 256, Len(data) % 256>>

Checksum(data) ==
  LET c == (WeightedSum(data, 1, Len(data)) + Len(data)) % 65521
  IN  <<c \div 256, c % 256>>

HashCode(hash_alg) ==
  IF hash_alg = "Sha1" THEN 1
  ELSE IF hash_alg = "Sha256" THEN 2
  ELSE IF hash_alg = "Sha384" THEN 3
  ELSE 5

\* HashAlgorithm::hash, and the Sha1/Sha256/Sha384/Sha512 hashers
Digest(hash_alg, data) == <<HashCode(hash_alg)>> \o Checksum(data)

(***************************************************************************)
(* signature-validator/src/rsa_rustcrypto.rs                               *)
(***************************************************************************)
SHA1_PREFIX == <<48, 33, 48, 9, 6, 5, 43, 14, 3, 2, 26, 5, 0, 4, 20>>
SHA256_PREFIX == <<48, 49, 48, 13, 6, 9, 96, 134, 72, 1, 101, 3, 4, 2, 1, 5, 0, 4, 32>>
SHA384_PREFIX == <<48, 65, 48, 13, 6, 9, 96, 134, 72, 1, 101, 3, 4, 2, 2, 5, 0, 4, 48>>
SHA512_PREFIX == <<48, 81, 48, 13, 6, 9, 96, 134, 72, 1, 101, 3, 4, 2, 3, 5, 0, 4, 64>>

AllZero(bytes) == \A k \in 1..Len(bytes) : bytes[k] = 0

\* the value of a big-endian exponent is at least 2
AtLeastTwo(e) ==
  \E k \in 1..Len(e) : e[k] # 0 /\ (k < Len(e) \/ e[k] >= 2)

\* PublicKey::from_components: BoxedUint::from_be_slice takes the exponent at the
\* modulus' precision, RsaPublicKey::new wants an odd modulus of at most 4096 bits
\* and an exponent from 2 to 2^33 - 1
from_components(n, e) ==
  IF Len(e) > Len(n) THEN Err("Failed to create exponent")
  ELSE IF n = <<>> \/ n[Len(n)] % 2 = 0 \/ Len(n) > 512
          \/ ~AtLeastTwo(e)
          \/ (Len(e) > 5 /\ ~AllZero(SubSeq(e, 1, Len(e) - 5)))
          \/ (Len(e) >= 5 /\ e[Len(e) - 4] > 1)
    THEN Err("Failed to create RSA public key")
  ELSE Ok([n |-> n, e |-> e])

\* RSA's public permutation on byte strings of the modulus length
RsaPublic(key, sig) ==
  [k \in 1..Len(sig) |-> (sig[k] + key.n[k] + key.e[Len(key.e)]) % 256]

\* EMSA-PKCS1-v1_5: 00 01 FF .. FF 00 || DigestInfo, at least eight FF
Pkcs1v15Pad(digest_info, k) ==
  <<0, 1>> \o [j \in 1..(k - Len(digest_info) - 3) |-> 255] \o <<0>> \o digest_info

\* Pkcs1v15Sign::new_unprefixed().verify(key, digest_info, sig).is_ok()
Pkcs1v15Verify(key, digest_info, sig) ==
  /\ Len(sig) = Len(key.n)
  /\ Len(key.n) >= Len(digest_info) + 11
  /\ RsaPublic(key, sig) = Pkcs1v15Pad(digest_info, Len(key.n))

DigestInfoPrefix(hash_alg) ==
  IF hash_alg = "Sha1" THEN SHA1_PREFIX
  ELSE IF hash_alg = "Sha256" THEN SHA256_PREFIX
  ELSE IF hash_alg = "Sha384" THEN SHA384_PREFIX
  ELSE SHA512_PREFIX

verify_pkcs1v15(key, hashed, sig, hash_alg) ==
  LET digest_info == DigestInfoPrefix(hash_alg) \o hashed
  IN  IF Pkcs1v15Verify(key, digest_info, sig) THEN Ok(TRUE) ELSE Ok(FALSE)

(***************************************************************************)
(* signature-validator/src/lib.rs                                          *)
(***************************************************************************)
get_hash_algorithm(algorithm) ==
  IF algorithm = "Sha1WithRsaEncryption" THEN "Sha1"
  ELSE IF algorithm = "Sha256WithRsaEncryption" THEN "Sha256"
  ELSE IF algorithm = "Sha384WithRsaEncryption" THEN "Sha384"
  ELSE "Sha512"

calculate_pdf_data_hash(signed_data, algorithm) ==
  Ok(Digest(get_hash_algorithm(algorithm), signed_data))

check_alg_consistency_internal(params) ==
  IF ~params.digest_algorithm.some THEN Err("Digest algorithm not found")
  ELSE LET digest_alg == params.digest_algorithm.v
       IN  IF digest_alg = OidSha1
             THEN Ok(params.sig_algorithm = "Sha1WithRsaEncryption")
           ELSE IF digest_alg = OidSha256
             THEN Ok(params.sig_algorithm = "Sha256WithRsaEncryption")
           ELSE IF digest_alg = OidSha384
             THEN Ok(params.sig_algorithm = "Sha384WithRsaEncryption")
           ELSE IF digest_alg = OidSha512
             THEN Ok(params.sig_algorithm = "Sha512WithRsaEncryption")
           ELSE Err("Unknown digest algorithm")

calculate_signed_attrs_hash(params) ==
  IF ~params.signed_attrs_der.some THEN Err("Signed attributes DER not found")
  ELSE Ok(Digest(get_hash_algorithm(params.sig_algorithm), params.signed_attrs_der.v))

create_rsa_public_key(params) ==
  IF ~params.modulus.some THEN Err("Modulus not found")
  ELSE IF ~params.exponent.some THEN Err("Exponent not found")
  ELSE from_components(params.modulus.v, params.exponent.v)

verify_rsa_signature(public_key, message, signature, hash_alg) ==
  verify_pkcs1v15(public_key, message, signature, hash_alg)

\* lines 47-65: the comparison of the recomputed digest with messageDigest.
\* Ok(TRUE) lets the verification go on, Ok(FALSE) is the function's result.
check_message_digest_skipped(params, signed_data) ==
  IF ~params.signed_attrs_message_digest.some
    THEN Err("No message digest found in signedAttrs")
  ELSE Ok(TRUE)

check_message_digest(params, signed_data) ==
  Try(calculate_pdf_data_hash(signed_data, params.sig_algorithm),
      LAMBDA calculated_signed_data_hash :
        IF ~params.signed_attrs_message_digest.some
          THEN Err("No message digest found in signedAttrs")
        ELSE Ok(params.signed_attrs_message_digest.v = calculated_signed_data_hash))

\* lines 73-86: the hash of the signed attributes and the RSA verification.
\* With the crate's debug feature the log line slices signature[..16].
verify_signed_attrs(params, debug) ==
  Try(calculate_signed_attrs_hash(params), LAMBDA calculated_digest :
    IF debug /\ Len(params.signature) < 16
      THEN Panic("range end index 16 out of range for slice")
    ELSE Try(create_rsa_public_key(params), LAMBDA rsa_public_key :
           verify_rsa_signature(rsa_public_key, calculated_digest, params.signature,
                                get_hash_algorithm(params.sig_algorithm))))

verify_pdf_signature(pdf_bytes, debug) ==
  Try(get_signature_der(pdf_bytes), LAMBDA located :
  Try(parse_signed_data(located.signature_der), LAMBDA verifier_params :
  Try(check_message_digest(verifier_params, located.signed_data), LAMBDA digest_matches :
    IF ~digest_matches THEN Ok(FALSE)
    ELSE Try(check_alg_consistency_internal(verifier_params), LAMBDA algs_match :
           IF ~algs_match THEN Ok(FALSE)
           ELSE verify_signed_attrs(verifier_params, debug)))))

(***************************************************************************)
(* extractor/src/parser.rs: the object parser                              *)
(***************************************************************************)
\* u8::is_ascii_whitespace (TAB, LF, FF, CR, SP)
AsciiWhitespace == {9, 10, 12, 13, 32}
\* the bytes that end a name or an operator: whitespace and ()<>[]{}/%
NameDelimiters == AsciiWhitespace \cup {40, 41, 60, 62, 91, 93, 123, 125, 47, 37}
AsciiDigits == 48..57
AsciiHexDigits == (48..57) \cup (65..70) \cup (97..102)

\* the first position in lo..hi-1 whose byte is in S (member) or outside S
\* (~member), or hi: where a `while let Some(ch) = self.peek()` loop stops
RECURSIVE FirstWhere(_, _, _, _, _)
FirstWhere(data, lo, hi, S, member) ==
  IF lo >= hi THEN hi
  ELSE IF hi - lo = 1 THEN (IF (At(data, lo) \in S) = member THEN lo ELSE hi)
  ELSE LET mid == (lo + hi) \div 2
           l == FirstWhere(data, lo, mid, S, member)
       IN  IF l < mid THEN l ELSE FirstWhere(data, mid, hi, S, member)

\* self.data.get(pos), with -1 for None
Peek(data, pos) == IF pos < Len(data) THEN At(data, pos) ELSE -1

\* self.data[pos..].starts_with(pattern)
remaining_starts_with(data, pos, pattern) ==
  /\ pos + Len(pattern) <= Len(data)
  /\ Slice(data, pos, pos + Len(pattern)) = pattern

skip_whitespace(data, pos) == FirstWhere(data, pos, Len(data), AsciiWhitespace, FALSE)

skip_comment(data, pos) ==
  IF Peek(data, pos) # 37 THEN pos
  ELSE LET e == FirstWhere(data, pos, Len(data), {10, 13}, TRUE)
       IN  IF e < Len(data) THEN e + 1 ELSE e

RECURSIVE skip_whitespace_and_comments(_, _)
skip_whitespace_and_comments(data, pos) ==
  LET p == skip_whitespace(data, pos)
  IN  IF Peek(data, p) = 37 THEN skip_whitespace_and_comments(data, skip_comment(data, p))
      ELSE p

\* PdfObj
PdfNull == [t |-> "Null"]
PdfBoolean(b) == [t |-> "Boolean", b |-> b]
PdfNumber(milli) == [t |-> "Number", milli |-> milli]
PdfName(name) == [t |-> "Name", name |-> name]
PdfString(bytes) == [t |-> "String", bytes |-> bytes]
PdfArray(items) == [t |-> "Array", items |-> items]
PdfDictionary(dict) == [t |-> "Dictionary", dict |-> dict]
PdfStream(dict, data) == [t |-> "Stream", dict |-> dict, data |-> data]
PdfReference(id, gen) == [t |-> "Reference", id |-> id, gen |-> gen]

\* BTreeMap<String, PdfObj>: a function from names (as bytes) to objects
EmptyDict == [k \in {} |-> PdfNull]
DictInsert(dict, key, value) ==
  [k \in (DOMAIN dict) \cup {key} |-> IF k = key THEN value ELSE dict[k]]
DictGet(dict, key) == IF key \in DOMAIN dict THEN Some(dict[key]) ELSE None
\* dict.get(key) matches Some(PdfObj::<t>(..))
DictHas(dict, key, t) == key \in DOMAIN dict /\ dict[key].t = t

\* the value of a run of decimal digits, saturating at the largest integer
RECURSIVE DigitsValue(_, _)
DigitsValue(digits, acc) ==
  IF digits = <<>> THEN acc
  ELSE DigitsValue(Tail(digits), acc * 10 + (Head(digits) - 48))

IntegerPart(digits) ==
  LET n == Len(digits)
      sig == Slice(digits, FirstWhere(digits, 0, n, {48}, FALSE), n)
  IN  IF Len(sig) > 5 THEN MaxUsize
      ELSE LET v == DigitsValue(sig, 0) IN IF v > MaxUsize THEN MaxUsize ELSE v

\* str::parse::<f32> on a string of an optional sign, digits and at most one
\* dot, in thousandths: it fails when the string holds no digit
ParseF32(num_str) ==
  LET n == Len(num_str)
      signed == n > 0 /\ num_str[1] \in {43, 45}
      body == IF signed THEN Tail(num_str) ELSE num_str
      dot == FirstWhere(body, 0, Len(body), {46}, TRUE)
      int == Slice(body, 0, dot)
      frac == Slice(body, IF dot < Len(body) THEN dot + 1 ELSE dot, Len(body))
      frac3 == SubSeq(frac \o <<48, 48, 48>>, 1, 3)
      magnitude == IntegerPart(int) * 1000
                   + (IF IntegerPart(int) = MaxUsize THEN 0 ELSE DigitsValue(frac3, 0))
  IN  IF int = <<>> /\ frac = <<>> THEN Err("Failed to parse number")
      ELSE Ok(IF signed /\ num_str[1] = 45 THEN 0 - magnitude ELSE magnitude)

\* `num as u32`, `num as u16`, `num as usize`: truncating, saturating casts
AsUnsigned(milli) == IF milli <= 0 THEN 0 ELSE milli \div 1000

\* the end of the number that starts at pos
NumberEnd(data, pos) ==
  LET p1 == IF Peek(data, pos) \in {45, 43} THEN pos + 1 ELSE pos
      e1 == FirstWhere(data, p1, Len(data), AsciiDigits, FALSE)
  IN  IF Peek(data, e1) = 46 THEN FirstWhere(data, e1 + 1, Len(data), AsciiDigits, FALSE)
      ELSE e1

parse_number(data, pos) ==
  Let(NumberEnd(data, pos), LAMBDA e :
    Try(ParseF32(Slice(data, pos, e)), LAMBDA num :
      Ok([obj |-> PdfNumber(num), pos |-> e])))

parse_name(data, pos) ==
  IF Peek(data, pos) # 47 THEN Err("Expected name to start with /")
  ELSE LET e == FirstWhere(data, pos + 1, Len(data), NameDelimiters, TRUE)
           name == Slice(data, pos + 1, e)
       IN  IF ~IsUtf8(name) THEN Err("Invalid UTF-8 in name")
           ELSE Ok([obj |-> PdfName(name), pos |-> e])

\* the escapes of a literal string (an octal escape is not one of them)
Unescape(ch) ==
  CASE ch = 110 -> 10
    [] ch = 114 -> 13
    [] ch = 116 -> 9
    [] ch = 98 -> 8
    [] ch = 102 -> 12
    [] OTHER -> ch

\* one iteration of parse_string's `while paren_depth > 0`
StringStep(data, s) ==
  LET ch == Peek(data, s.pos)
  IN  IF s.st # "run" THEN s
      ELSE IF s.depth = 0 THEN [s EXCEPT !.st = "ok"]
      ELSE IF ch = -1 THEN [s EXCEPT !.st = "err"]
      ELSE IF ch = 92 /\ ~s.escape THEN [s EXCEPT !.escape = TRUE, !.pos = @ + 1]
      ELSE IF s.escape
        THEN [s EXCEPT !.result = Append(@, Unescape(ch)), !.escape = FALSE, !.pos = @ + 1]
      ELSE IF ch = 40
        THEN [s EXCEPT !.depth = @ + 1, !.result = Append(@, ch), !.pos = @ + 1]
      ELSE IF ch = 41
        THEN [s EXCEPT !.depth = @ - 1, !.pos = @ + 1,
                       !.result = IF s.depth - 1 > 0 THEN Append(@, ch) ELSE @]
      ELSE [s EXCEPT !.result = Append(@, ch), !.pos = @ + 1]

\* 2^k iterations of the loop
RECURSIVE StringLoop(_, _, _)
StringLoop(data, s, k) ==
  IF s.st # "run" THEN s
  ELSE IF k = 0 THEN StringStep(data, s)
  ELSE StringLoop(data, StringLoop(data, s, k - 1), k - 1)

\* enough doublings for a loop that takes one step per byte and one to leave
LoopDoublings == 17

\* the doublings that cover the steps of such a loop over data: the least k
\* with 2^k >= len + 2
Doublings(data) ==
  CHOOSE k \in 0..LoopDoublings :
    /\ 2^k >= Len(data) + 2
    /\ \A j \in 0..(k - 1) : 2^j < Len(data) + 2

parse_string(data, pos) ==
  IF Peek(data, pos) # 40 THEN Err("Expected string to start with (")
  ELSE LET s == StringLoop(data, [pos |-> pos + 1, depth |-> 1, escape |-> FALSE,
                                  result |-> <<>>, st |-> "run"], Doublings(data))
       IN  IF s.st = "err" THEN Err("Unexpected end of string")
           ELSE Ok([obj |-> PdfString(s.result), pos |-> s.pos])

IsHexDigit(b) == b \in AsciiHexDigits

\* the bytes of an even-length run of hex digits
HexPairs(hex_chars) ==
  [i \in 1..(Len(hex_chars) \div 2) |->
     HexVal(hex_chars[2 * i - 1]) * 16 + HexVal(hex_chars[2 * i])]

parse_hex_string(data, pos) ==
  IF Peek(data, pos) # 60 THEN Err("Expected hex string to start with <")
  ELSE
  LET e == FirstWhere(data, pos + 1, Len(data), AsciiWhitespace \cup AsciiHexDigits, FALSE)
  IN  IF e >= Len(data) THEN Err("Unexpected end of hex string")
      ELSE IF At(data, e) # 62 THEN Err("Invalid character in hex string")
      ELSE LET digits == SelectSeq(Slice(data, pos + 1, e), IsHexDigit)
               hex_chars == IF Len(digits) % 2 = 1 THEN Append(digits, 48) ELSE digits
           IN  Ok([obj |-> PdfString(HexPairs(hex_chars)), pos |-> e + 1])

check_keyword(data, pos, keyword) == remaining_starts_with(data, pos, keyword)

RECURSIVE parse_object(_, _)
RECURSIVE ArrayLoop(_, _, _)
RECURSIVE DictLoop(_, _, _)

\* the loop of parse_array
ArrayLoop(data, pos, array) ==
  Let(skip_whitespace_and_comments(data, pos), LAMBDA p :
    IF Peek(data, p) = 93 THEN Ok([obj |-> PdfArray(array), pos |-> p + 1])
    ELSE Try(parse_object(data, p), LAMBDA r :
           ArrayLoop(data, r.pos, Append(array, r.obj))))

parse_array(data, pos) ==
  IF Peek(data, pos) # 91 THEN Err("Expected array to start with [")
  ELSE ArrayLoop(data, pos + 1, <<>>)

\* the loop of parse_dictionary
DictLoop(data, pos, dict) ==
  Let(skip_whitespace_and_comments(data, pos), LAMBDA p :
    IF Peek(data, p) = 62 /\ Peek(data, p + 1) = 62
      THEN Ok([dict |-> dict, pos |-> p + 2])
    ELSE Try(parse_object(data, p), LAMBDA key :
           IF key.obj.t # "Name" THEN Err("Dictionary key must be a name")
           ELSE Try(parse_object(data, skip_whitespace_and_comments(data, key.pos)),
                    LAMBDA value :
                      DictLoop(data, value.pos,
                               DictInsert(dict, key.obj.name, value.obj)))))

parse_dictionary(data, pos) ==
  Let(skip_whitespace_and_comments(data, pos), LAMBDA p :
    IF Peek(data, p) # 60 \/ Peek(data, p + 1) # 60
      THEN Err("Expected dictionary to start with <<")
    ELSE DictLoop(data, p + 2, EmptyDict))

parse_reference(data, pos, num) ==
  Try(parse_object(data, skip_whitespace(data, pos)), LAMBDA g :
    IF g.obj.t # "Number" THEN Err("Expected generation number")
    ELSE Let(skip_whitespace(data, g.pos), LAMBDA p :
           IF Peek(data, p) = 82
           THEN Ok([obj |-> PdfReference(num, AsUnsigned(g.obj.milli)), pos |-> p + 1])
           ELSE Err("Expected R after generation number")))

\* parse_object's arm for a number, which may open a reference
NumberOrReference(data, pos) ==
  Let(parse_number(data, pos), LAMBDA num_obj :
    IF ~IsOk(num_obj) THEN num_obj
    ELSE Let(skip_whitespace(data, num_obj.val.pos), LAMBDA next :
           IF Peek(data, next) \notin AsciiDigits THEN num_obj
           ELSE Let(parse_reference(data, next, AsUnsigned(num_obj.val.obj.milli)),
                    LAMBDA ref_obj : IF IsOk(ref_obj) THEN ref_obj ELSE num_obj)))

\* parse_object's match on the byte ch found at p
ObjectAt(data, p, ch) ==
  CASE ch = -1 -> Err("Unexpected end of input")
    [] ch = 110 /\ check_keyword(data, p, B("null")) -> Ok([obj |-> PdfNull, pos |-> p + 4])
    [] ch = 116 /\ check_keyword(data, p, B("true")) ->
         Ok([obj |-> PdfBoolean(TRUE), pos |-> p + 4])
    [] ch = 102 /\ check_keyword(data, p, B("false")) ->
         Ok([obj |-> PdfBoolean(FALSE), pos |-> p + 5])
    [] ch = 47 -> parse_name(data, p)
    [] ch = 40 -> parse_string(data, p)
    [] ch = 60 ->
         IF Peek(data, p + 1) = 60
         THEN Try(parse_dictionary(data, p), LAMBDA d :
                Ok([obj |-> PdfDictionary(d.dict), pos |-> d.pos]))
         ELSE parse_hex_string(data, p)
    [] ch = 91 -> parse_array(data, p)
    [] ch \in AsciiDigits \cup {45, 43, 46} -> NumberOrReference(data, p)
    [] OTHER -> Err("Unexpected character")

parse_object(data, pos) ==
  Let(skip_whitespace_and_comments(data, pos), LAMBDA p : ObjectAt(data, p, Peek(data, p)))

parse_value(data, pos) == parse_object(data, pos)

(***************************************************************************)
(* extractor/src/parser.rs: the file parser and the page tree.  Object     *)
(* streams and cross-reference streams are not modelled: a run that would  *)
(* enter that code ends in OutOfModel.                                     *)
(***************************************************************************)
OutOfModel(what) == [kind |-> "OutOfModel", err |-> what]

\* PdfError::ParseError(msg) as the error of a result
ParseError(msg) == [kind |-> "Err", err |-> msg, variant |-> "ParseError"]

\* map_err(PdfError::ParseError)
MapParseError(r) == IF IsErr(r) THEN ParseError(r.err) ELSE r

(***************************************************************************)
(* extractor/src/stream.rs: the filters of a stream.  Inflating is not     *)
(* modelled: a run that would inflate data ends in OutOfModel.             *)
(***************************************************************************)
hex_digit_value(ch) ==
  IF ch \in 48..57 THEN Ok(ch - 48)
  ELSE IF ch \in 65..70 THEN Ok(ch - 65 + 10)
  ELSE IF ch \in 97..102 THEN Ok(ch - 97 + 10)
  ELSE Err("Invalid hex digit")

\* one iteration of decode_ascii_hex's loop: the match on the next two of the
\* bytes that are not whitespace
AsciiHexStep(chars, s) ==
  LET a == Peek(chars, s.pos)
      b == Peek(chars, s.pos + 1)
      high == hex_digit_value(a)
      low == hex_digit_value(b)
  IN  IF s.st # "run" THEN s
      ELSE IF a = 62 \/ a = -1 THEN [s EXCEPT !.st = "ok"]
      ELSE IF IsErr(high) THEN [s EXCEPT !.st = "err"]
      ELSE IF b = 62 \/ b = -1
        THEN [s EXCEPT !.result = Append(@, high.val * 16), !.st = "ok"]
      ELSE IF IsErr(low) THEN [s EXCEPT !.st = "err"]
      ELSE [s EXCEPT !.result = Append(@, high.val * 16 + low.val), !.pos = @ + 2]

RECURSIVE AsciiHexLoop(_, _, _)
AsciiHexLoop(chars, s, k) ==
  IF s.st # "run" THEN s
  ELSE IF k = 0 THEN AsciiHexStep(chars, s)
  ELSE AsciiHexLoop(chars, AsciiHexLoop(chars, s, k - 1), k - 1)

decode_ascii_hex(data) ==
  Let(SelectSeq(data, LAMBDA b : b \notin AsciiWhitespace), LAMBDA chars :
  Let(AsciiHexLoop(chars, [pos |-> 0, result |-> <<>>, st |-> "run"], Doublings(chars)),
      LAMBDA s : IF s.st = "err" THEN Err("Invalid hex digit") ELSE Ok(s.result)))

\* A u32 as its two 16-bit halves, with a mark set once the arithmetic has
\* passed 2^32 - 1.  v * 85 + d, wrapping:
Mul85Add(v, d) ==
  Let(v.lo * 85 + d, LAMBDA lo :
  Let(v.hi * 85 + lo \div 65536, LAMBDA hi :
    [hi |-> hi % 65536, lo |-> lo % 65536, overflow |-> v.overflow \/ hi >= 65536]))

\* tuple[0] * 85^4 + tuple[1] * 85^3 + tuple[2] * 85^2 + tuple[3] * 85 + tuple[4]
\* in u32 arithmetic.  The terms are not negative, so one of the operations
\* overflows exactly when the sum is above 2^32 - 1, and the wrapped sum is the
\* sum modulo 2^32 in whatever order it is formed.
RECURSIVE TupleValue(_, _)
TupleValue(tuple, v) ==
  IF tuple = <<>> THEN v ELSE TupleValue(Tail(tuple), Mul85Add(v, Head(tuple)))

\* (value >> 24) as u8, (value >> 16) as u8, (value >> 8) as u8, value as u8
ValueBytes(v) == <<v.hi \div 256, v.hi % 256, v.lo \div 256, v.lo % 256>>

U32Zero == [hi |-> 0, lo |-> 0, overflow |-> FALSE]

\* the value of the five digits of a tuple as the build computes it: with
\* overflow checks an overflow panics, without them the value wraps
GroupValue(tuple, overflow_checks, F(_)) ==
  Let(TupleValue(tuple, U32Zero), LAMBDA value :
    IF value.overflow /\ overflow_checks THEN Panic("arithmetic overflow in decode_ascii85")
    ELSE F(value))

\* the digits left when the data ends: padded with 84, count - 1 bytes kept
Ascii85Rest(tuple, result, overflow_checks) ==
  IF tuple = <<>> THEN Ok(result)
  ELSE GroupValue(tuple \o [k \in 1..(5 - Len(tuple)) |-> 84], overflow_checks,
                  LAMBDA value : Ok(result \o SubSeq(ValueBytes(value), 1, Len(tuple) - 1)))

\* the loop of decode_ascii85 from position i; tuple holds the count digits read
RECURSIVE Ascii85Loop(_, _, _, _, _)
Ascii85Loop(data, i, tuple, result, overflow_checks) ==
  IF i >= Len(data) THEN Ascii85Rest(tuple, result, overflow_checks)
  ELSE IF At(data, i) \in AsciiWhitespace
    THEN Ascii85Loop(data, i + 1, tuple, result, overflow_checks)
  ELSE IF At(data, i) = 126 THEN Ascii85Rest(tuple, result, overflow_checks)
  ELSE IF At(data, i) = 122 /\ tuple = <<>>
    THEN Ascii85Loop(data, i + 1, tuple, result \o <<0, 0, 0, 0>>, overflow_checks)
  ELSE IF At(data, i) \notin 33..117 THEN Err("Invalid ASCII85 character")
  ELSE IF Len(tuple) < 4
    THEN Ascii85Loop(data, i + 1, Append(tuple, At(data, i) - 33), result, overflow_checks)
  ELSE GroupValue(Append(tuple, At(data, i) - 33), overflow_checks, LAMBDA value :
         Ascii85Loop(data, i + 1, <<>>, result \o ValueBytes(value), overflow_checks))

\* decode_ascii85 as a build with or without overflow checks runs it
decode_ascii85(data, overflow_checks) == Ascii85Loop(data, 0, <<>>, <<>>, overflow_checks)

apply_filter(filter_name, data) ==
  IF filter_name = B("FlateDecode")
    THEN IF data = <<>> THEN Err("FlateDecode data is empty") ELSE OutOfModel("inflate")
  ELSE IF filter_name = B("ASCIIHexDecode") THEN decode_ascii_hex(data)
  ELSE IF filter_name = B("ASCII85Decode")
    THEN IF decode_ascii85(data, TRUE) = decode_ascii85(data, FALSE)
         THEN decode_ascii85(data, FALSE)
         ELSE OutOfModel("a tuple above 2^32 - 1")
  ELSE Err("Unsupported filter")

paeth_predictor(a, b, c) ==
  LET Abs(x) == IF x < 0 THEN 0 - x ELSE x
      p == a + b - c
      pa == Abs(p - a)
      pb == Abs(p - b)
      pc == Abs(p - c)
  IN  IF pa <= pb /\ pa <= pc THEN a ELSE IF pb <= pc THEN b ELSE c

\* the bytes of one row from column i on, after the decoded columns 0..i-1
RECURSIVE DecodeRow(_, _, _, _, _)
DecodeRow(algo, row, prev_row, i, decoded_row) ==
  IF i >= Len(row) THEN decoded_row
  ELSE LET left == IF i > 0 THEN At(decoded_row, i - 1) ELSE 0
           up == At(prev_row, i)
           up_left == IF i > 0 THEN At(prev_row, i - 1) ELSE 0
           add == CASE algo = 0 -> 0
                    [] algo = 1 -> left
                    [] algo = 2 -> up
                    [] algo = 3 -> (left + up) \div 2
                    [] algo = 4 -> paeth_predictor(left, up, up_left)
       IN  DecodeRow(algo, row, prev_row, i + 1,
                     Append(decoded_row, (At(row, i) + add) % 256))

\* the algorithm of a row: that of its predictor byte, a byte from 10 on
\* counting from 10, and none for the bytes that name no algorithm
RowAlgorithm(predictor_byte) ==
  IF predictor_byte <= 4 THEN Some(predictor_byte)
  ELSE IF predictor_byte >= 10 /\ predictor_byte - 10 <= 2 THEN Some(predictor_byte - 10)
  ELSE None

\* the rows of apply_png_predictor from position pos on
RECURSIVE PredictorRows(_, _, _, _, _)
PredictorRows(data, columns, pos, prev_row, result) ==
  IF pos >= Len(data) THEN Ok(result)
  ELSE Let(RowAlgorithm(At(data, pos)), LAMBDA algo :
         IF ~algo.some THEN Err("Unsupported predictor algorithm")
         ELSE IF algo.v = 1 /\ columns = 0 THEN Panic("index out of bounds")
         ELSE Let(DecodeRow(algo.v, Slice(data, pos + 1, pos + 1 + columns), prev_row,
                            0, <<>>),
                  LAMBDA decoded_row :
                    PredictorRows(data, columns, pos + columns + 1, decoded_row,
                                  result \o decoded_row)))

apply_png_predictor(data, predictor, columns) ==
  IF columns = MaxUsize THEN Panic("attempt to add with overflow")
  ELSE IF Len(data) % (columns + 1) # 0 THEN Err("Invalid data size for predictor")
  ELSE PredictorRows(data, columns, 0, [k \in 1..columns |-> 0], <<>>)

\* `*predictor as i32`: the fraction is dropped
AsI32(milli) == IF milli < 0 THEN 0 - ((0 - milli) \div 1000) ELSE milli \div 1000

apply_decode_parms(data, decode_parms) ==
  IF decode_parms.t = "Dictionary"
    THEN IF ~DictHas(decode_parms.dict, B("Predictor"), "Number") THEN Ok(data)
         ELSE Let(AsI32(decode_parms.dict[B("Predictor")].milli), LAMBDA predictor :
                IF predictor <= 1 THEN Ok(data)
                ELSE IF predictor \notin 10..15 THEN Err("Unsupported predictor")
                ELSE IF ~DictHas(decode_parms.dict, B("Columns"), "Number")
                  THEN Err("Missing Columns for predictor")
                ELSE apply_png_predictor(
                       data, predictor, AsUnsigned(decode_parms.dict[B("Columns")].milli)))
  ELSE IF decode_parms.t = "Null" THEN Ok(data)
  ELSE Err("Invalid DecodeParms type")

\* the loop of handle_stream_filters over an array of filters, from index i
RECURSIVE FilterLoop(_, _, _, _)
FilterLoop(filters, decode_parms_array, i, result) ==
  IF i >= Len(filters) THEN Ok(result)
  ELSE IF At(filters, i).t # "Name" THEN FilterLoop(filters, decode_parms_array, i + 1, result)
  ELSE Try(apply_filter(At(filters, i).name, result), LAMBDA filtered :
         IF decode_parms_array.some /\ i < Len(decode_parms_array.v)
         THEN Try(apply_decode_parms(filtered, At(decode_parms_array.v, i)), LAMBDA r :
                FilterLoop(filters, decode_parms_array, i + 1, r))
         ELSE FilterLoop(filters, decode_parms_array, i + 1, filtered))

handle_stream_filters(stream_dict, data) ==
  IF B("Filter") \notin DOMAIN stream_dict THEN Ok(data)
  ELSE IF stream_dict[B("Filter")].t = "Name"
    THEN Try(apply_filter(stream_dict[B("Filter")].name, data), LAMBDA result :
           IF B("DecodeParms") \in DOMAIN stream_dict
           THEN apply_decode_parms(result, stream_dict[B("DecodeParms")])
           ELSE Ok(result))
  ELSE IF stream_dict[B("Filter")].t = "Array"
    THEN FilterLoop(stream_dict[B("Filter")].items,
                    IF DictHas(stream_dict, B("DecodeParms"), "Array")
                    THEN Some(stream_dict[B("DecodeParms")].items) ELSE None,
                    0, data)
  ELSE Err("Invalid Filter type")

\* the least p in lo..hi such that every byte of data[p..hi) is in S: where a
\* `while pos > lo && S.contains(data[pos - 1])` loop stops
RECURSIVE BackWhile(_, _, _, _)
BackWhile(data, lo, hi, S) ==
  IF lo >= hi THEN hi
  ELSE IF hi - lo = 1 THEN (IF At(data, lo) \in S THEN lo ELSE hi)
  ELSE LET mid == (lo + hi) \div 2
           r == BackWhile(data, mid, hi, S)
       IN  IF r > mid THEN r ELSE BackWhile(data, lo, mid, S)

EndstreamTerm == B("endstream")

search_for_endstream(data, stream_start, search_term) ==
  LET search_len == Len(search_term)
      len == Len(data)
      PrevOk(i) == i = 0 \/ At(data, i - 1) \in AsciiWhitespace
      NextOk(i) == \/ i + search_len >= len
                   \/ remaining_starts_with(data, i + search_len, B("endobj"))
                   \/ At(data, i + search_len) \in AsciiWhitespace
      hits == {i \in stream_start..(len - search_len) :
                 Slice(data, i, i + search_len) = search_term /\ PrevOk(i) /\ NextOk(i)}
  IN  IF hits = {} THEN ParseError("Missing 'endstream'")
      ELSE Ok(Slice(data, stream_start,
                    BackWhile(data, stream_start, MinOf(hits), AsciiWhitespace)))

\* the position after the end of line that follows the `stream` keyword
SkipStreamEol(data, pos) ==
  IF Peek(data, pos) = 13 THEN (IF Peek(data, pos + 1) = 10 THEN pos + 2 ELSE pos + 1)
  ELSE IF Peek(data, pos) = 10 THEN pos + 1
  ELSE pos

\* the data of the stream that starts at stream_start and the position of the
\* parser when it has been read
StreamData(data, dict_obj, stream_start) ==
  Let(stream_start + AsUnsigned(dict_obj[B("Length")].milli), LAMBDA data_end :
    IF DictHas(dict_obj, B("Length"), "Number") /\ data_end <= Len(data)
    THEN Let(skip_whitespace_and_comments(
               data, BackWhile(data, stream_start, data_end, AsciiWhitespace)),
             LAMBDA p :
               IF ~remaining_starts_with(data, p, EndstreamTerm)
               THEN ParseError("Missing 'endstream'")
               ELSE Ok([data |-> Slice(data, stream_start, data_end), pos |-> p]))
    ELSE Try(search_for_endstream(data, stream_start, EndstreamTerm), LAMBDA found :
           Ok([data |-> found, pos |-> stream_start])))

\* the value of an indirect object whose value is a dictionary, with the stream
\* that may follow it
DictionaryObject(data, pos) ==
  Try(MapParseError(parse_dictionary(data, pos)), LAMBDA d :
  Let(skip_whitespace_and_comments(data, d.pos), LAMBDA p :
    IF ~remaining_starts_with(data, p, B("stream"))
    THEN IF ~remaining_starts_with(data, p, B("endobj"))
         THEN ParseError("Missing 'endobj' for dictionary object")
         ELSE Ok([obj |-> PdfDictionary(d.dict), pos |-> p + 6])
    ELSE
    Try(StreamData(data, d.dict, SkipStreamEol(data, p + 6)), LAMBDA sd :
    Let(skip_whitespace_and_comments(data, sd.pos + Len(EndstreamTerm)), LAMBDA q :
      IF ~remaining_starts_with(data, q, B("endobj"))
        THEN ParseError("Missing 'endobj' after stream")
      ELSE IF /\ DictHas(d.dict, B("Type"), "Name")
              /\ d.dict[B("Type")].name = B("ObjStm")
              /\ DictHas(d.dict, B("First"), "Number")
              /\ DictHas(d.dict, B("N"), "Number")
        THEN Let(handle_stream_filters(d.dict, sd.data), LAMBDA decompressed :
               IF IsErr(decompressed)
                 THEN Ok([obj |-> PdfStream(d.dict, sd.data), pos |-> q + 6])
               ELSE IF IsOk(decompressed) THEN OutOfModel("object stream")
               ELSE decompressed)
      ELSE Ok([obj |-> PdfStream(d.dict, sd.data), pos |-> q + 6])))))

\* the value of an indirect object: what follows `obj`, up to `endobj`
ObjectValue(data, pos) ==
  IF Peek(data, pos) = 60 /\ Peek(data, pos + 1) = 60 THEN DictionaryObject(data, pos)
  ELSE Try(MapParseError(parse_value(data, pos)), LAMBDA v :
       Let(skip_whitespace_and_comments(data, v.pos), LAMBDA p :
         IF ~remaining_starts_with(data, p, B("endobj"))
         THEN ParseError("Missing 'endobj' for object")
         ELSE Ok([obj |-> v.obj, pos |-> p + 6])))

\* the position after a `startxref` section
SkipStartxref(data, pos) ==
  Let(skip_whitespace_and_comments(data, pos + 9), LAMBDA p1 :
  Let(skip_whitespace_and_comments(
        data, IF p1 < Len(data) THEN NumberEnd(data, p1) ELSE p1), LAMBDA p3 :
    IF remaining_starts_with(data, p3, B("%%EOF")) THEN p3 + 5 ELSE p3))

\* "<obj_id> <gen_id> obj" and the value: one indirect object
IndirectObject(data, pos) ==
  Try(MapParseError(parse_number(data, pos)), LAMBDA id :
  Try(MapParseError(parse_number(data, skip_whitespace_and_comments(data, id.pos))),
      LAMBDA gen :
  Let(skip_whitespace_and_comments(data, gen.pos), LAMBDA p :
    IF ~remaining_starts_with(data, p, B("obj")) THEN ParseError("Missing 'obj' keyword")
    ELSE Try(ObjectValue(data, skip_whitespace_and_comments(data, p + 3)), LAMBDA v :
           Ok([key |-> <<AsUnsigned(id.obj.milli), AsUnsigned(gen.obj.milli)>>,
               obj |-> v.obj, pos |-> v.pos])))))

\* BTreeMap<(u32, u16), PdfObj>
NoObjects == [k \in {} |-> PdfNull]

\* the linear scan of parse_pdf
RECURSIVE ObjectLoop(_, _, _)
ObjectLoop(data, pos, objects) ==
  Let(skip_whitespace_and_comments(data, pos), LAMBDA p :
    IF p >= Len(data) THEN Ok([objects |-> objects, pos |-> p])
    ELSE IF \/ remaining_starts_with(data, p, B("xref"))
            \/ remaining_starts_with(data, p, B("trailer"))
      THEN Ok([objects |-> objects, pos |-> p])
    ELSE IF remaining_starts_with(data, p, B("startxref"))
      THEN ObjectLoop(data, SkipStartxref(data, p), objects)
    ELSE Try(IndirectObject(data, p), LAMBDA o :
           ObjectLoop(data, o.pos, DictInsert(objects, o.key, o.obj))))

\* the position after the header line
SkipHeader(data) ==
  IF ~remaining_starts_with(data, 0, B("%PDF")) THEN 0
  ELSE LET e == FirstWhere(data, 0, Len(data), {10, 13}, TRUE)
       IN  IF Peek(data, e) = 13 THEN (IF Peek(data, e + 1) = 10 THEN e + 2 ELSE e + 1)
           ELSE IF Peek(data, e) = 10 THEN e + 1
           ELSE e

\* parse_xref_stream on a stream whose decoded data is shorter than one
\* entry, which adds no object; reading entries is not modelled
parse_xref_stream(objects, xref_stream) ==
  IF ~DictHas(xref_stream.dict, B("W"), "Array")
    THEN ParseError("XRef stream missing W array")
  ELSE IF Len(xref_stream.dict[B("W")].items) # 3
    THEN ParseError("XRef stream W array must have 3 elements")
  ELSE
  Try(MapParseError(handle_stream_filters(xref_stream.dict, xref_stream.data)),
      LAMBDA decompressed_data :
    LET w == [i \in 1..3 |->
                IF xref_stream.dict[B("W")].items[i].t = "Number"
                THEN AsUnsigned(xref_stream.dict[B("W")].items[i].milli) ELSE 0]
    IN  IF w[1] + w[2] + w[3] > Len(decompressed_data) THEN Ok(objects)
        ELSE OutOfModel("cross-reference stream entries"))

\* the order of the keys of the object table
KeyLeq(a, b) == a[1] < b[1] \/ (a[1] = b[1] /\ a[2] <= b[2])

\* the trailer dictionary: the one at the end of the scan, else the last
\* `trailer` of the file, else that of the first cross-reference stream
FindTrailer(data, pos, objects) ==
  LET later == {i \in 0..(Len(data) - 8) : remaining_starts_with(data, i, B("trailer"))}
      IsXRef(k) == /\ objects[k].t = "Stream"
                   /\ DictHas(objects[k].dict, B("Type"), "Name")
                   /\ objects[k].dict[B("Type")].name = B("XRef")
  IN  Let(IF remaining_starts_with(data, pos, B("trailer")) THEN pos
          ELSE IF later # {} THEN CHOOSE i \in later : \A k \in later : k <= i
          ELSE -1,
          LAMBDA at :
            IF at >= 0
              THEN Try(MapParseError(
                         parse_dictionary(data, skip_whitespace_and_comments(data, at + 7))),
                       LAMBDA d : Ok(d.dict))
            ELSE IF \E k \in DOMAIN objects : IsXRef(k)
              THEN Let(objects[CHOOSE k \in DOMAIN objects :
                                 /\ IsXRef(k)
                                 /\ \A j \in DOMAIN objects :
                                      IsXRef(j) => KeyLeq(k, j)],
                       LAMBDA stream :
                         Try(parse_xref_stream(objects, stream), LAMBDA added :
                           Ok(stream.dict)))
            ELSE ParseError("No trailer or cross-reference stream found"))

resolve_reference(objects, reference) ==
  IF reference \in DOMAIN objects THEN Some(objects[reference]) ELSE None

\* resources.insert(k, v) for every entry of over
Overlay(base, over) ==
  [k \in (DOMAIN base) \cup (DOMAIN over) |-> IF k \in DOMAIN over THEN over[k] ELSE base[k]]

RefOf(obj) == <<obj.id, obj.gen>>

\* dict.get(key) as a dictionary, following one reference
DictOrReferenced(dict, key, objects) ==
  IF DictHas(dict, key, "Dictionary") THEN Some(dict[key].dict)
  ELSE IF /\ DictHas(dict, key, "Reference")
          /\ RefOf(dict[key]) \in DOMAIN objects
          /\ objects[RefOf(dict[key])].t = "Dictionary"
    THEN Some(objects[RefOf(dict[key])].dict)
  ELSE None

\* a merge in which the inherited entry stays on a collision
MergeResourcesInheritedWins(inherited_resources, page_dict, objects) ==
  IF DictOrReferenced(page_dict, B("Resources"), objects).some
    THEN Overlay(DictOrReferenced(page_dict, B("Resources"), objects).v, inherited_resources)
  ELSE inherited_resources

\* the inherited resources overlaid with those of a node
MergeResources(inherited_resources, page_dict, objects) ==
  LET res == DictOrReferenced(page_dict, B("Resources"), objects)
  IN  IF res.some THEN Overlay(inherited_resources, res.v) ELSE inherited_resources

\* an item of an array that is a reference to a stream
IsStreamRef(item, objects) ==
  /\ item.t = "Reference"
  /\ RefOf(item) \in DOMAIN objects
  /\ objects[RefOf(item)].t = "Stream"

\* the decoded streams among the references of an array, in order
StreamsOfArray(arr, objects) ==
  Let([k \in 1..Len(arr) |->
         IF IsStreamRef(arr[k], objects)
         THEN MapParseError(handle_stream_filters(objects[RefOf(arr[k])].dict,
                                                  objects[RefOf(arr[k])].data))
         ELSE None],
      LAMBDA r :
        Let({k \in 1..Len(arr) : IsStreamRef(arr[k], objects) /\ ~IsOk(r[k])},
            LAMBDA bad :
              IF bad # {} THEN r[MinOf(bad)]
              ELSE Ok(Concat([k \in 1..Len(arr) |->
                                IF IsStreamRef(arr[k], objects) THEN <<r[k].val>>
                                ELSE <<>>]))))

\* what /Contents of a page holds: its array, or the object its reference names
ContentsObject(page_dict, objects) ==
  IF DictHas(page_dict, B("Contents"), "Array") THEN page_dict[B("Contents")]
  ELSE IF /\ DictHas(page_dict, B("Contents"), "Reference")
          /\ RefOf(page_dict[B("Contents")]) \in DOMAIN objects
    THEN objects[RefOf(page_dict[B("Contents")])]
  ELSE PdfNull

\* the content streams of a page
ContentStreams(page_dict, objects) ==
  Let(ContentsObject(page_dict, objects), LAMBDA content_obj :
    IF content_obj.t = "Stream"
      THEN Try(MapParseError(handle_stream_filters(content_obj.dict, content_obj.data)),
               LAMBDA decompressed : Ok(<<decompressed>>))
    ELSE IF content_obj.t = "Array" THEN StreamsOfArray(content_obj.items, objects)
    ELSE Ok(<<>>))

\* the PageContent of a Page node
PageContentOf(page_dict, inherited_resources, objects) ==
  Let(MergeResources(inherited_resources, page_dict, objects), LAMBDA resources :
    IF DictOrReferenced(resources, B("Font"), objects).some THEN OutOfModel("font")
    ELSE Try(ContentStreams(page_dict, objects), LAMBDA streams :
           Ok([content_streams |-> streams, fonts |-> EmptyDict,
               resources |-> resources])))

\* the calls of collect_pages a Pages node makes, one for each reference of Kids
KidCalls(page_dict, inherited_resources, objects) ==
  LET new_inherited == MergeResources(inherited_resources, page_dict, objects)
      kids == IF DictHas(page_dict, B("Kids"), "Array") THEN page_dict[B("Kids")].items
              ELSE <<>>
      refs == SelectSeq(kids, LAMBDA kid : kid.t = "Reference")
  IN  [k \in 1..Len(refs) |-> [page_ref |-> RefOf(refs[k]), inherited |-> new_inherited]]

\* the type name of a node
PageType(page_dict) ==
  IF DictHas(page_dict, B("Type"), "Name") THEN page_dict[B("Type")].name ELSE <<>>

\* The traversal as a machine: calls holds the calls of collect_pages still to
\* be made, in the order the recursion makes them; one step makes the first.
\* expanded lists the nodes that got past the visited check, in order.
Fail(s, r) ==
  [s EXCEPT !.status = r.kind, !.err = r.err,
            !.variant = IF r.kind = "Err" THEN r.variant ELSE ""]

\* collect_pages past the visited check: the node is marked and expanded
ExpandNode(objects, s) ==
  LET call == Head(s.calls)
      page_ref == call.page_ref
      seen == [s EXCEPT !.visited = @ \cup {page_ref}, !.calls = Tail(s.calls),
                        !.expanded = Append(@, page_ref)]
      page_dict == objects[page_ref].dict
  IN  IF page_ref \notin DOMAIN objects
        THEN Fail(seen, ParseError("Could not resolve page reference"))
      ELSE IF objects[page_ref].t # "Dictionary"
        THEN Fail(seen, ParseError("Page is not a dictionary"))
      ELSE IF PageType(page_dict) = B("Page")
        THEN Let(PageContentOf(page_dict, call.inherited, objects), LAMBDA content :
               IF ~IsOk(content) THEN Fail(seen, content)
               ELSE [seen EXCEPT !.pages = Append(@, content.val)])
      ELSE IF PageType(page_dict) = B("Pages")
        THEN [seen EXCEPT !.calls = KidCalls(page_dict, call.inherited, objects) \o @]
      ELSE seen

\* the traversal without its visited check
collect_pages_unchecked(objects, s) == ExpandNode(objects, s)

collect_pages(objects, s) ==
  IF Head(s.calls).page_ref \in s.visited THEN [s EXCEPT !.calls = Tail(s.calls)]
  ELSE ExpandNode(objects, s)

\* one step of the traversal: the next call, or the return of the first call
CollectStep(objects, s) ==
  IF s.status # "Run" THEN s
  ELSE IF s.calls = <<>> THEN [s EXCEPT !.status = "Ok"]
  ELSE collect_pages(objects, s)

RECURSIVE CollectLoop(_, _, _)
CollectLoop(objects, s, k) ==
  IF s.status # "Run" THEN s
  ELSE IF k = 0 THEN CollectStep(objects, s)
  ELSE CollectLoop(objects, CollectLoop(objects, s, k - 1), k - 1)

\* the first call parse_page_tree makes
FirstCall(pages_ref) ==
  [calls |-> <<[page_ref |-> pages_ref, inherited |-> EmptyDict]>>, visited |-> {},
   expanded |-> <<>>, pages |-> <<>>, status |-> "Run", err |-> "", variant |-> ""]

\* parse_page_tree before its call of collect_pages: the reference in /Pages
\* of the root
PagesReference(objects, root_ref) ==
  IF root_ref \notin DOMAIN objects THEN ParseError("Could not resolve root reference")
  ELSE IF objects[root_ref].t # "Dictionary" THEN ParseError("Root is not a dictionary")
  ELSE IF ~DictHas(objects[root_ref].dict, B("Pages"), "Reference")
    THEN ParseError("No Pages in root")
  ELSE Ok(RefOf(objects[root_ref].dict[B("Pages")]))

\* what parse_page_tree returns when the first call of collect_pages is over
PagesCollected(s) ==
  IF s.status = "Ok" THEN Ok(s.pages)
  ELSE IF s.status = "Err" THEN [kind |-> "Err", err |-> s.err, variant |-> s.variant]
  ELSE [kind |-> s.status, err |-> s.err]

parse_page_tree(objects, root_ref) ==
  Try(PagesReference(objects, root_ref), LAMBDA pages_ref :
    PagesCollected(CollectLoop(objects, FirstCall(pages_ref), LoopDoublings)))

\* a scan that takes object 1 for the root when no trailer names one
ScanFileDefaultRoot(data) ==
  Try(ObjectLoop(data, SkipHeader(data), NoObjects), LAMBDA scan :
  Let(FindTrailer(data, scan.pos, scan.objects), LAMBDA trailer :
    IF IsOk(trailer) /\ DictHas(trailer.val, B("Root"), "Reference")
    THEN Ok([objects |-> scan.objects, root_ref |-> RefOf(trailer.val[B("Root")])])
    ELSE Ok([objects |-> scan.objects, root_ref |-> <<1, 0>>])))

\* parse_pdf before its call of parse_page_tree: the object table and the
\* reference in /Root of the trailer
ScanFile(data) ==
  Try(ObjectLoop(data, SkipHeader(data), NoObjects), LAMBDA scan :
  Try(FindTrailer(data, scan.pos, scan.objects), LAMBDA trailer_dict :
    IF ~DictHas(trailer_dict, B("Root"), "Reference") THEN ParseError("No Root in trailer")
    ELSE Ok([objects |-> scan.objects, root_ref |-> RefOf(trailer_dict[B("Root")])])))

parse_pdf(data) ==
  Try(ScanFile(data), LAMBDA file :
  Try(parse_page_tree(file.objects, file.root_ref), LAMBDA pages :
    Ok([pages |-> pages, objects |-> file.objects])))

(***************************************************************************)
(* extractor/src/token.rs: the tokens of a content stream                  *)
(***************************************************************************)
TokNumber(milli) == [k |-> "Number", milli |-> milli]
TokString(bytes) == [k |-> "String", bytes |-> bytes]
TokName(name) == [k |-> "Name", name |-> name]
TokOperator(op) == [k |-> "Operator", op |-> op]
TokArrayStart == [k |-> "ArrayStart"]
TokArrayEnd == [k |-> "ArrayEnd"]
TokDictStart == [k |-> "DictStart"]
TokDictEnd == [k |-> "DictEnd"]

\* what parse_token returns and where it leaves the position
Token(tok, pos) == [tok |-> Some(tok), pos |-> pos]
NoToken(pos) == [tok |-> None, pos |-> pos]

token_parse_name(data, pos) ==
  Let(FirstWhere(data, pos + 1, Len(data), NameDelimiters, TRUE), LAMBDA e :
    IF IsUtf8(Slice(data, pos + 1, e)) THEN Token(TokName(Slice(data, pos + 1, e)), e)
    ELSE NoToken(e))

\* the value of an escape, with the octal digits that follow its first
OctalEscape(data, ch, pos) ==
  LET d1 == Peek(data, pos)
      d2 == Peek(data, pos + 1)
      v0 == ch - 48
  IN  IF d1 \notin 48..55 THEN [v |-> v0, pos |-> pos]
      ELSE IF d2 \notin 48..55 THEN [v |-> v0 * 8 + (d1 - 48), pos |-> pos + 1]
      ELSE [v |-> IF (v0 * 8 + (d1 - 48)) * 8 + (d2 - 48) > 255 THEN 255
                  ELSE (v0 * 8 + (d1 - 48)) * 8 + (d2 - 48),
            pos |-> pos + 2]

\* one iteration of the `while paren_depth > 0` of TokenParser::parse_string
TokenStringStep(data, s) ==
  LET ch == Peek(data, s.pos)
      oct == OctalEscape(data, ch, s.pos + 1)
  IN  IF s.st # "run" THEN s
      ELSE IF s.depth = 0 THEN [s EXCEPT !.st = "ok"]
      ELSE IF ch = -1 THEN [s EXCEPT !.st = "err"]
      ELSE IF s.escape /\ ch \in 48..55
        THEN [s EXCEPT !.result = Append(@, oct.v), !.escape = FALSE, !.pos = oct.pos]
      ELSE IF s.escape
        THEN [s EXCEPT !.result = Append(@, Unescape(ch)), !.escape = FALSE, !.pos = @ + 1]
      ELSE IF ch = 92 THEN [s EXCEPT !.escape = TRUE, !.pos = @ + 1]
      ELSE IF ch = 40
        THEN [s EXCEPT !.depth = @ + 1, !.result = Append(@, ch), !.pos = @ + 1]
      ELSE IF ch = 41
        THEN [s EXCEPT !.depth = @ - 1, !.pos = @ + 1,
                       !.result = IF s.depth - 1 > 0 THEN Append(@, ch) ELSE @]
      ELSE [s EXCEPT !.result = Append(@, ch), !.pos = @ + 1]

RECURSIVE TokenStringLoop(_, _, _)
TokenStringLoop(data, s, k) ==
  IF s.st # "run" THEN s
  ELSE IF k = 0 THEN TokenStringStep(data, s)
  ELSE TokenStringLoop(data, TokenStringLoop(data, s, k - 1), k - 1)

token_parse_string(data, pos) ==
  Let(TokenStringLoop(data, [pos |-> pos + 1, depth |-> 1, escape |-> FALSE,
                             result |-> <<>>, st |-> "run"], Doublings(data)),
      LAMBDA s : IF s.st = "err" THEN NoToken(s.pos) ELSE Token(TokString(s.result), s.pos))

token_parse_hex_string(data, pos) ==
  Let(FirstWhere(data, pos + 1, Len(data), AsciiWhitespace \cup AsciiHexDigits, FALSE),
      LAMBDA e :
        IF e < Len(data) /\ At(data, e) # 62 THEN NoToken(e)
        ELSE Let(SelectSeq(Slice(data, pos + 1, e), IsHexDigit), LAMBDA digits :
               Token(TokString(HexPairs(IF Len(digits) % 2 = 1 THEN Append(digits, 48)
                                        ELSE digits)),
                     IF e < Len(data) THEN e + 1 ELSE e)))

token_parse_number(data, pos) ==
  Let(NumberEnd(data, pos), LAMBDA e :
  Let(ParseF32(Slice(data, pos, e)), LAMBDA num :
    IF IsOk(num) THEN Token(TokNumber(num.val), e) ELSE NoToken(e)))

parse_operator(data, pos) ==
  Let(FirstWhere(data, pos, Len(data), NameDelimiters, TRUE), LAMBDA e :
    IF e = pos THEN NoToken(pos + 1)
    ELSE IF IsUtf8(Slice(data, pos, e)) THEN Token(TokOperator(Slice(data, pos, e)), e)
    ELSE NoToken(e))

parse_token(data, pos) ==
  LET ch == Peek(data, pos)
  IN  CASE ch = 47 -> token_parse_name(data, pos)
        [] ch = 40 -> token_parse_string(data, pos)
        [] ch = 60 ->
             IF Peek(data, pos + 1) = 60 THEN Token(TokDictStart, pos + 2)
             ELSE IF Peek(data, pos + 1) = 62 THEN Token(TokString(<<>>), pos + 2)
             ELSE token_parse_hex_string(data, pos)
        [] ch = 62 /\ Peek(data, pos + 1) = 62 -> Token(TokDictEnd, pos + 2)
        [] ch = 91 -> Token(TokArrayStart, pos + 1)
        [] ch = 93 -> Token(TokArrayEnd, pos + 1)
        [] ch \in AsciiDigits \cup {45, 43, 46} -> token_parse_number(data, pos)
        [] OTHER -> parse_operator(data, pos)

\* one iteration of parse_all's loop
ParseAllStep(data, s) ==
  IF s.done THEN s
  ELSE Let(skip_whitespace(data, s.pos), LAMBDA p :
         IF s.pos >= Len(data) \/ p >= Len(data) THEN [s EXCEPT !.done = TRUE, !.pos = p]
         ELSE Let(parse_token(data, p), LAMBDA t :
                [s EXCEPT !.pos = t.pos,
                          !.tokens = IF t.tok.some THEN Append(@, t.tok.v) ELSE @]))

RECURSIVE ParseAllLoop(_, _, _)
ParseAllLoop(data, s, k) ==
  IF s.done THEN s
  ELSE IF k = 0 THEN ParseAllStep(data, s)
  ELSE ParseAllLoop(data, ParseAllLoop(data, s, k - 1), k - 1)

parse_all(data) ==
  ParseAllLoop(data, [pos |-> 0, tokens |-> <<>>, done |-> FALSE], Doublings(data)).tokens

(***************************************************************************)
(* extractor/src/text.rs, extractor/src/lib.rs: the text of the pages.     *)
(* A text is the sequence of its characters' code points.                  *)
(***************************************************************************)
\* the characters of the bytes 0x80..0x9f in decode_winansi and decode_macroman
WinAnsiHigh ==
  <<8364, 129, 8218, 402, 8222, 8230, 8224, 8225, 710, 8240, 352, 8249, 338,
    141, 381, 143, 144, 39, 39, 34, 34, 8226, 8211, 8212, 732, 8482, 353,
    8250, 339, 157, 382, 376>>
MacRomanHigh ==
  <<196, 197, 199, 201, 209, 214, 220, 225, 224, 226, 228, 227, 229, 231,
    233, 232, 234, 235, 237, 236, 238, 239, 241, 243, 242, 244, 246, 245,
    250, 249, 251, 252>>

decode_winansi(byte) ==
  IF byte \in 128..159 THEN WinAnsiHigh[byte - 127] ELSE IF byte < 32 THEN 63 ELSE byte

decode_macroman(byte) ==
  IF byte \in 128..159 THEN MacRomanHigh[byte - 127] ELSE IF byte < 32 THEN 63 ELSE byte

\* char::REPLACEMENT_CHARACTER
ReplacementChar == 65533

\* map.get(&code) as the string to push, when there is a map and it has the code
Lookup(map, code) ==
  IF map.some /\ code \in DOMAIN map.v THEN Some(map.v[code]) ELSE None

\* the CID branch of decode_with_font, from byte i on
RECURSIVE CidLoop(_, _, _, _)
CidLoop(bytes, font, i, result) ==
  IF i >= Len(bytes) THEN result
  ELSE Let(Lookup(font.to_unicode,
                  IF i + 1 < Len(bytes) THEN At(bytes, i) * 256 + At(bytes, i + 1)
                  ELSE At(bytes, i)),
           LAMBDA unicode_str :
             CidLoop(bytes, font, i + 2,
                     IF unicode_str.some THEN result \o unicode_str.v
                     ELSE Append(result, ReplacementChar)))

\* the character of a byte in the encoding of the font
EncodedChar(byte, encoding) ==
  IF encoding = B("WinAnsiEncoding") THEN decode_winansi(byte)
  ELSE IF encoding = B("MacRomanEncoding") THEN decode_macroman(byte)
  ELSE IF byte \in 32..126 THEN byte
  ELSE 63

\* the single byte branch of decode_with_font, from byte i on
RECURSIVE SingleByteLoop(_, _, _, _)
SingleByteLoop(bytes, font, i, result) ==
  IF i >= Len(bytes) THEN result
  ELSE SingleByteLoop(
         bytes, font, i + 1,
         IF Lookup(font.differences, At(bytes, i)).some
           THEN result \o Lookup(font.differences, At(bytes, i)).v
         ELSE IF Lookup(font.to_unicode, At(bytes, i)).some
           THEN result \o Lookup(font.to_unicode, At(bytes, i)).v
         ELSE Append(result, EncodedChar(At(bytes, i), font.encoding)))

\* decode_with_font taking every font for a single byte font
decode_with_font_single_byte(bytes, font) == SingleByteLoop(bytes, font, 0, <<>>)

decode_with_font(bytes, font) ==
  IF \/ font.subtype = B("Type0")
     \/ font.encoding = B("Identity-H")
     \/ font.encoding = B("Identity-V")
  THEN CidLoop(bytes, font, 0, <<>>)
  ELSE SingleByteLoop(bytes, font, 0, <<>>)

\* decode_text: with a font decode_with_font, without one the printable ASCII
\* bytes
decode_text(bytes, font) ==
  IF font.some THEN Ok(decode_with_font(bytes, font.v))
  ELSE Ok(SelectSeq(bytes, LAMBDA b : b \in 32..126))

\* text_line is moved to the end of text, after a space when text is not empty
FlushLine(s) ==
  IF s.text_line = <<>> THEN s
  ELSE [s EXCEPT !.text = (IF @ = <<>> THEN @ ELSE Append(@, 32)) \o s.text_line,
                 !.text_line = <<>>]

\* text_line.push_str(&decode_text(bytes, current_font))
ShowText(s, tok) ==
  LET decoded == decode_text(tok.bytes, s.current_font)
  IN  IF tok.k # "String" THEN s
      ELSE IF ~IsOk(decoded) THEN [s EXCEPT !.status = decoded.kind]
      ELSE [s EXCEPT !.text_line = @ \o decoded.val]

\* the items of a TJ array shown with a space for every negative number
RECURSIVE ShowItemsAnyNegative(_, _)
ShowItemsAnyNegative(s, array_items) ==
  IF array_items = <<>> THEN s
  ELSE ShowItemsAnyNegative(
         IF Head(array_items).k = "String" THEN ShowText(s, Head(array_items))
         ELSE IF Head(array_items).k = "Number" /\ Head(array_items).milli < 0
           THEN [s EXCEPT !.text_line = Append(@, 32)]
         ELSE s,
         Tail(array_items))

\* the items of the array that ends before the TJ at i, outermost level only,
\* as the backward walk from i - 2 down to 1 collects them
RECURSIVE TJItems(_, _, _, _)
TJItems(tokens, j, depth, array_items) ==
  IF ~(j > 0 /\ depth > 0) THEN array_items
  ELSE IF tokens[j + 1].k = "ArrayEnd" THEN TJItems(tokens, j - 1, depth + 1, array_items)
  ELSE IF tokens[j + 1].k = "ArrayStart" THEN TJItems(tokens, j - 1, depth - 1, array_items)
  ELSE IF depth = 1 THEN TJItems(tokens, j - 1, depth, <<tokens[j + 1]>> \o array_items)
  ELSE TJItems(tokens, j - 1, depth, array_items)

RECURSIVE ShowItems(_, _)
ShowItems(s, array_items) ==
  IF array_items = <<>> THEN s
  ELSE LET item == Head(array_items)
       IN  ShowItems(IF item.k = "String" THEN ShowText(s, item)
                     ELSE IF item.k = "Number" /\ item.milli < -200000
                       THEN [s EXCEPT !.text_line = Append(@, 32)]
                     ELSE s,
                     Tail(array_items))

\* the forms a form may draw, one inside the other, before a run leaves the model
MaxFormDepth == 2

RECURSIVE ExtractTextAtDepth(_, _, _, _, _)

\* process_xobject: the text of the form XObject of a name, None when the
\* name is that of no form.  The fonts of a form's own resources are not
\* modelled.
\* process_xobject up to its call of extract_text_from_stream: the decoded data
\* and the resources of the form that xobj_name names, if it names one
FormXObject(xobj_name, resources, objects) ==
  Let(DictOrReferenced(resources, B("XObject"), objects), LAMBDA xobjects :
    IF ~xobjects.some THEN Ok(None)
    ELSE IF ~DictHas(xobjects.v, xobj_name, "Reference") THEN Ok(None)
    ELSE IF RefOf(xobjects.v[xobj_name]) \notin DOMAIN objects THEN Ok(None)
    ELSE Let(objects[RefOf(xobjects.v[xobj_name])], LAMBDA xobj :
      IF xobj.t # "Stream" THEN Ok(None)
      ELSE IF ~DictHas(xobj.dict, B("Subtype"), "Name") THEN Ok(None)
      ELSE IF xobj.dict[B("Subtype")].name # B("Form") THEN Ok(None)
      ELSE Let(handle_stream_filters(xobj.dict, xobj.data), LAMBDA data :
        IF IsErr(data) THEN Ok(None)
        ELSE IF ~IsOk(data) THEN data
        ELSE Let(DictOrReferenced(xobj.dict, B("Resources"), objects), LAMBDA res :
          IF res.some /\ DictHas(res.v, B("Font"), "Dictionary") THEN OutOfModel("font")
          ELSE Ok(Some([data |-> data.val,
                        resources |-> IF res.some THEN res.v ELSE EmptyDict]))))))

process_xobject(xobj_name, resources, objects, parent_fonts, depth) ==
  Try(FormXObject(xobj_name, resources, objects), LAMBDA form :
    IF ~form.some THEN Ok(None)
    ELSE IF depth = 0 THEN OutOfModel("form depth")
    ELSE Try(ExtractTextAtDepth(form.v.data, parent_fonts, form.v.resources, objects,
                                depth - 1),
             LAMBDA xobj_text : Ok(Some(xobj_text))))

\* the Do arm: the text of the form goes to the end of text, after a space
\* when text is not empty
DrawXObject(s, xobj_text) ==
  IF ~IsOk(xobj_text) THEN [s EXCEPT !.status = xobj_text.kind]
  ELSE IF ~xobj_text.val.some THEN s
  ELSE [s EXCEPT !.text = (IF @ = <<>> THEN @ ELSE Append(@, 32)) \o xobj_text.val.v]

\* the arm of extract_text_from_stream's match for the operator at index i
TextOperator(tokens, i, s, fonts, resources, objects, depth) ==
  LET op == tokens[i + 1].op
      Prev(n) == tokens[i + 1 - n]
  IN  CASE op = B("BT") -> [s EXCEPT !.in_text = TRUE, !.text_line = <<>>]
        [] op = B("ET") -> [FlushLine(s) EXCEPT !.in_text = FALSE]
        [] op = B("Tf") ->
             IF i >= 2 /\ Prev(2).k = "Name"
             THEN [s EXCEPT !.current_font = DictGet(fonts, Prev(2).name)]
             ELSE s
        [] op = B("Tj") -> IF i >= 1 /\ s.in_text THEN ShowText(s, Prev(1)) ELSE s
        [] op = B("TJ") ->
             IF i >= 1 /\ s.in_text /\ Prev(1).k = "ArrayEnd"
             THEN ShowItems(s, TJItems(tokens, i - 2, 1, <<>>))
             ELSE s
        [] op = <<39>> -> IF i >= 1 /\ s.in_text THEN ShowText(FlushLine(s), Prev(1)) ELSE s
        [] op = <<34>> -> IF i >= 3 /\ s.in_text THEN ShowText(FlushLine(s), Prev(1)) ELSE s
        [] op = B("Do") ->
             IF i >= 1 /\ Prev(1).k = "Name"
             THEN DrawXObject(s, process_xobject(Prev(1).name, resources, objects, fonts,
                                                 depth))
             ELSE s
        [] OTHER -> s

RECURSIVE TextLoop(_, _, _, _, _, _, _)
TextLoop(tokens, i, s, fonts, resources, objects, depth) ==
  IF i >= Len(tokens) \/ s.status # "Ok" THEN s
  ELSE TextLoop(tokens, i + 1,
                IF tokens[i + 1].k = "Operator"
                THEN TextOperator(tokens, i, s, fonts, resources, objects, depth) ELSE s,
                fonts, resources, objects, depth)

\* extract_text_from_stream, called for a form that may draw depth more forms
\* inside it
ExtractTextAtDepth(stream_data, fonts, resources, objects, depth) ==
  Let(TextLoop(parse_all(stream_data), 0,
               [text |-> <<>>, current_font |-> None, in_text |-> FALSE,
                text_line |-> <<>>, status |-> "Ok"],
               fonts, resources, objects, depth),
      LAMBDA s : IF s.status # "Ok" THEN OutOfModel("font or form")
                 ELSE Ok(FlushLine(s).text))

extract_text_from_stream(stream_data, fonts, resources, objects) ==
  ExtractTextAtDepth(stream_data, fonts, resources, objects, MaxFormDepth)

\* the content streams of a page, a space between one and the next
RECURSIVE AllContent(_)
AllContent(content_streams) ==
  IF content_streams = <<>> THEN <<>>
  ELSE LET all_content == AllContent(SubSeq(content_streams, 1, Len(content_streams) - 1))
       IN  (IF all_content = <<>> THEN <<>> ELSE Append(all_content, 32))
           \o content_streams[Len(content_streams)]

extract_text_from_page_content(page, objects) ==
  Let(AllContent(page.content_streams), LAMBDA all_content :
    IF all_content = <<>> THEN Ok(<<>>)
    ELSE extract_text_from_stream(all_content, page.fonts, page.resources, objects))

\* extract_text_from_document leaving out the pages that have no content stream
extract_text_from_document_nonempty(pages, objects) ==
  Let(SelectSeq(pages, LAMBDA page : page.content_streams # <<>>), LAMBDA with_content :
  Let([k \in 1..Len(with_content) |->
         extract_text_from_page_content(with_content[k], objects)], LAMBDA results :
    IF \E k \in 1..Len(with_content) : ~IsOk(results[k]) THEN OutOfModel("font or form")
    ELSE Ok([k \in 1..Len(with_content) |-> results[k].val])))

extract_text_from_document(pages, objects) ==
  Let([k \in 1..Len(pages) |-> extract_text_from_page_content(pages[k], objects)],
      LAMBDA results :
        IF \E k \in 1..Len(pages) : ~IsOk(results[k]) THEN OutOfModel("font or form")
        ELSE Ok([k \in 1..Len(pages) |-> results[k].val]))

extract_text(pdf_bytes) ==
  Try(parse_pdf(pdf_bytes), LAMBDA parsed :
    MapParseError(extract_text_from_document(parsed.pages, parsed.objects)))

(***************************************************************************)
(* The inputs: signed PDF files written by a signer.  DER encoders, the    *)
(* signer's key and the file layouts below build the byte strings the      *)
(* program is run on; they are not part of the program.                    *)
(***************************************************************************)
DerLen(n) ==
  IF n < 128 THEN <<n>> ELSE IF n < 256 THEN <<129, n>> ELSE <<130, n \div 256, n % 256>>

Der(tag, body) == <<tag>> \o DerLen(Len(body)) \o body
DerSeq(items) == Der(48, Concat(items))
DerSet(items) == Der(49, Concat(items))
DerNull == <<5, 0>>

EncOidSignedData == Der(6, <<42, 134, 72, 134, 247, 13, 1, 7, 2>>)
EncOidData == Der(6, <<42, 134, 72, 134, 247, 13, 1, 7, 1>>)
EncOidContentType == Der(6, <<42, 134, 72, 134, 247, 13, 1, 9, 3>>)
EncOidMessageDigest == Der(6, <<42, 134, 72, 134, 247, 13, 1, 9, 4>>)
EncOidSigningTime == Der(6, <<42, 134, 72, 134, 247, 13, 1, 9, 5>>)
EncOidRsaEncryption == Der(6, <<42, 134, 72, 134, 247, 13, 1, 1, 1>>)
EncOidCommonName == Der(6, <<85, 4, 3>>)

\* the digestAlgorithm OIDs (Md5 is one the verifier does not support)
EncOidDigest(h) ==
  IF h = "Sha1" THEN Der(6, <<43, 14, 3, 2, 26>>)
  ELSE IF h = "Sha256" THEN Der(6, <<96, 134, 72, 1, 101, 3, 4, 2, 1>>)
  ELSE IF h = "Sha384" THEN Der(6, <<96, 134, 72, 1, 101, 3, 4, 2, 2>>)
  ELSE IF h = "Sha512" THEN Der(6, <<96, 134, 72, 1, 101, 3, 4, 2, 3>>)
  ELSE Der(6, <<42, 134, 72, 134, 247, 13, 2, 5>>)

\* the signatureAlgorithm OIDs sha1/sha256/sha384/sha512WithRSAEncryption
EncOidWithRsa(h) ==
  Der(6, <<42, 134, 72, 134, 247, 13, 1, 1,
           IF h = "Sha1" THEN 5 ELSE IF h = "Sha256" THEN 11
           ELSE IF h = "Sha384" THEN 12 ELSE 13>>)

SignerModulus == [k \in 1..34 |-> (k * 7 + 129) % 256]
SignerExponent == <<1, 0, 1>>
SignerKey == [n |-> SignerModulus, e |-> SignerExponent]
SignerSerial == <<17>>
OtherSerial == <<18>>

\* the signer's private operation: the inverse of RsaPublic
RsaPrivate(key, em) ==
  [k \in 1..Len(em) |-> (em[k] + 512 - key.n[k] - key.e[Len(key.e)]) % 256]

\* the hash the signer works with: the digestAlgorithm it announces
SignerHash(c) == IF c.digest = "Md5" THEN "Sha256" ELSE c.digest

IssuerName == DerSeq(<<DerSet(<<DerSeq(<<EncOidCommonName, Der(19, B("T"))>>)>>)>>)

\* a modulus no RSA key can have: the signer's with its last bit cleared
EvenModulus == [SignerModulus EXCEPT ![Len(SignerModulus)] = @ - (@ % 2)]

Certificate(serial, modulus) ==
  DerSeq(<<
    DerSeq(<<
      Der(160, Der(2, <<2>>)),
      Der(2, serial),
      DerSeq(<<
        DerSeq(<<EncOidRsaEncryption, DerNull>>),
        Der(3, <<0>> \o DerSeq(<<Der(2, <<0>> \o modulus), Der(2, SignerExponent)>>))
      >>)
    >>),
    DerSeq(<<EncOidWithRsa("Sha256"), DerNull>>),
    Der(3, <<0, 1>>)
  >>)

\* a certificate whose tbsCertificate has the fields tbs
CertificateWithTbs(tbs) ==
  DerSeq(<<DerSeq(tbs), DerSeq(<<EncOidWithRsa("Sha256"), DerNull>>), Der(3, <<0, 1>>)>>)

\* a tbsCertificate of the version alone
VersionOnlyCertificate == CertificateWithTbs(<<Der(160, Der(2, <<2>>))>>)

\* a SubjectPublicKeyInfo of the algorithm alone, without the key
BareSpkiCertificate ==
  CertificateWithTbs(<<Der(160, Der(2, <<2>>)), Der(2, SignerSerial),
                       DerSeq(<<DerSeq(<<EncOidRsaEncryption, DerNull>>)>>)>>)

\* the content of signedAttrs: contentType, signingTime and (unless the signer
\* left it out) messageDigest
SignedAttrsContent(c, digest) ==
  Concat(<<
    DerSeq(<<EncOidContentType, DerSet(<<EncOidData>>)>>),
    DerSeq(<<EncOidSigningTime, DerSet(<<Der(23, B("260101000000Z"))>>)>>),
    IF c.md = "missing" THEN <<>>
    ELSE DerSeq(<<EncOidMessageDigest,
                  DerSet(<<Der(4, IF c.md = "bad"
                                  THEN <<digest[1], digest[2], (digest[3] + 1) % 256>>
                                  ELSE digest)>>)>>)
  >>)

SignatureValue(c, digest) ==
  LET attrs == Der(49, SignedAttrsContent(c, digest))
      em == Pkcs1v15Pad(DigestInfoPrefix(SignerHash(c)) \o Digest(SignerHash(c), attrs),
                        Len(SignerModulus))
      good == RsaPrivate(SignerKey, em)
  IN  IF c.sig = "good" THEN good
      ELSE IF c.sig = "bad" THEN [good EXCEPT ![Len(good)] = (@ + 1) % 256]
      ELSE IF c.sig = "short" THEN SubSeq(good, 1, 20)
      ELSE SubSeq(good, 1, 4)

SignerInfoDer(c, digest) ==
  IF c.der = "short signer info"
  THEN DerSeq(<<Der(2, <<1>>), DerSeq(<<IssuerName, Der(2, SignerSerial)>>)>>)
  ELSE
  DerSeq(<<
    Der(2, <<1>>),
    DerSeq(<<IssuerName, Der(2, SignerSerial)>>),
    DerSeq(<<EncOidDigest(c.digest), DerNull>>),
    Der(160, SignedAttrsContent(c, digest)),
    DerSeq(<<EncOidWithRsa(c.outer), DerNull>>),
    Der(4, SignatureValue(c, digest))
  >>)

\* the 0x00 bytes the signer fills /Contents with after the CMS structure
ZeroPaddings == {"one zero after", "two zeros after", "three zeros after", "four zeros after"}
ZerosAfter(c) ==
  CASE c.der = "one zero after" -> 1
    [] c.der = "two zeros after" -> 2
    [] c.der = "three zeros after" -> 3
    [] c.der = "four zeros after" -> 4
    [] OTHER -> 0

\* ContentInfo { signedData, [0] SignedData { version, digestAlgorithms,
\* encapContentInfo, [0] certificates, signerInfos } }
CmsDer(c, digest) ==
  LET whole ==
        DerSeq(<<
          EncOidSignedData,
          Der(160, DerSeq(<<
            Der(2, <<1>>),
            DerSet(<<DerSeq(<<EncOidDigest(c.digest), DerNull>>)>>),
            DerSeq(<<EncOidData>>),
            Der(160, IF c.cert = "version only" THEN VersionOnlyCertificate
                     ELSE IF c.cert = "bare spki" THEN BareSpkiCertificate
                     ELSE Certificate(
                            IF c.cert = "nomatch" THEN OtherSerial ELSE SignerSerial,
                            IF c.cert = "evenkey" THEN EvenModulus ELSE SignerModulus)),
            DerSet(<<SignerInfoDer(c, digest)>>)
          >>))
        >>)
  IN  IF c.der = "truncated" THEN SubSeq(whole, 1, Len(whole) - 5)
      ELSE whole \o [k \in 1..ZerosAfter(c) |-> 0]

HexDigits == B("0123456789abcdef")
HexEncode(bytes) ==
  [k \in 1..(2 * Len(bytes)) |->
     IF k % 2 = 1 THEN HexDigits[(bytes[(k + 1) \div 2] \div 16) + 1]
     ELSE HexDigits[(bytes[k \div 2] % 16) + 1]]

Dec4(n) == <<48 + ((n \div 1000) % 10), 48 + ((n \div 100) % 10),
             48 + ((n \div 10) % 10), 48 + (n % 10)>>

PdfHeader == B("%PDF-1.4\n")
CatalogObj == B("1 0 obj<</Type/Catalog/Pages 2 0 R>>endobj\n")
PagesObj == B("2 0 obj<</Type/Pages/Kids[3 0 R]/Count 1>>endobj\n")
PageObj == B("3 0 obj<</Type/Page/Parent 2 0 R/Contents 4 0 R>>endobj\n")
ContentObj == B("4 0 obj<</Length 17>>stream\nBT (Hello) Tj ET\nendstream endobj\n")
EmptyPageObj == B("3 0 obj<</Type/Page/Parent 2 0 R>>endobj\n")
TrailerPart == B("trailer<</Root 1 0 R>>\n")
SigObjOpen == B("5 0 obj<</Type/Sig/ByteRange[")
SigObjClose == B(">>endobj\n")
\* a comment line longer than the window in which /Contents is searched
LongComment == B("%") \o [k \in 1..510 |-> 120] \o B("\n")

DocObjects == CatalogObj \o PagesObj \o PageObj \o ContentObj
\* an object with a /Contents entry of its own, a short DER SEQUENCE in hex
DecoyObj == B("6 0 obj<</Contents<3003020100>>>endobj\n")

\* the objects of the file before and after the signature dictionary
BeforeSig(c) ==
  IF c.layout = "sigfirst" THEN PdfHeader
  ELSE IF c.layout = "pagefirst" THEN PdfHeader \o DocObjects
  ELSE IF c.layout = "decoy" THEN PdfHeader \o DecoyObj
  ELSE PdfHeader \o DocObjects \o LongComment

AfterSig(c) ==
  IF c.layout \in {"sigfirst", "decoy"} THEN DocObjects \o TrailerPart ELSE TrailerPart

\* a file signed the usual way: the two ranges of /ByteRange cover everything but
\* the hex string of /Contents, brackets included
SignedPdf(c) ==
  LET pre == BeforeSig(c) \o SigObjOpen
      post == B("]/Contents")
      tail == SigObjClose \o AfterSig(c)
      hexlen == 2 * Len(CmsDer(c, <<0, 0, 0>>))
      len1 == Len(pre) + 19 + Len(post)
      off2 == len1 + hexlen + 2
      part1 == pre \o Dec4(0) \o B(" ") \o Dec4(len1) \o B(" ") \o Dec4(off2) \o B(" ")
               \o Dec4(Len(tail)) \o post
      digest == Digest(SignerHash(c), part1 \o tail)
  IN  part1 \o B("<") \o HexEncode(CmsDer(c, digest)) \o B(">") \o tail

\* files the signature locator rejects
UnsignedPdf == PdfHeader \o DocObjects \o TrailerPart
NoContentsPdf ==
  PdfHeader \o CatalogObj \o PagesObj \o EmptyPageObj
  \o B("5 0 obj<</Type/Sig/ByteRange[0 9 12 5]>>endobj\n") \o TrailerPart
OutOfBoundsPdf ==
  PdfHeader \o B("5 0 obj<</Type/Sig/ByteRange[0 9 12 9999]/Contents<00>>>endobj\n")
  \o DocObjects \o TrailerPart
\* a second range whose offset and length add up to more than the machine word
OverflowPdf ==
  PdfHeader \o B("5 0 obj<</Type/Sig/ByteRange[0 9 65530 10]/Contents<00>>>endobj\n")
  \o DocObjects \o TrailerPart
BadHexPdf ==
  PdfHeader \o B("5 0 obj<</Type/Sig/ByteRange[0 9 60 5]/Contents<zz>>>endobj\n")
  \o DocObjects \o TrailerPart

BaseConfig ==
  [digest |-> "Sha256", outer |-> "Sha256", md |-> "good", sig |-> "good",
   cert |-> "match", der |-> "whole", layout |-> "sigfirst"]

\* the signers' choices the files of the model are written with: the base file
\* and every way of departing from it in one choice, and a few in two
Configs ==
  {BaseConfig}
  \cup {[BaseConfig EXCEPT !.digest = h, !.outer = h] : h \in {"Sha1", "Sha384", "Sha512", "Md5"}}
  \cup {[BaseConfig EXCEPT !.outer = h] : h \in {"Sha1", "Sha512"}}
  \cup {[BaseConfig EXCEPT !.digest = "Sha1", !.outer = "Sha256"]}
  \cup {[BaseConfig EXCEPT !.md = m] : m \in {"bad", "missing"}}
  \cup {[BaseConfig EXCEPT !.sig = s] : s \in {"bad", "short", "tiny"}}
  \cup {[BaseConfig EXCEPT !.cert = "nomatch"], [BaseConfig EXCEPT !.der = "truncated"]}
  \cup {[BaseConfig EXCEPT !.layout = l] : l \in {"pagefirst", "padded", "decoy"}}
  \cup {[BaseConfig EXCEPT !.md = "bad", !.outer = "Sha1"],
        [BaseConfig EXCEPT !.md = "bad", !.sig = "bad"],
        [BaseConfig EXCEPT !.outer = "Sha1", !.sig = "bad"],
        [BaseConfig EXCEPT !.outer = "Sha1", !.sig = "short"]}
  \cup {[BaseConfig EXCEPT !.cert = "evenkey"],
        [BaseConfig EXCEPT !.cert = "evenkey", !.md = "bad"],
        [BaseConfig EXCEPT !.cert = "evenkey", !.outer = "Sha1"],
        [BaseConfig EXCEPT !.md = "bad", !.sig = "tiny"]}
  \cup {[BaseConfig EXCEPT !.der = padding] : padding \in ZeroPaddings}
  \cup {[BaseConfig EXCEPT !.der = "short signer info"],
        [BaseConfig EXCEPT !.cert = "version only"],
        [BaseConfig EXCEPT !.cert = "bare spki"]}

\* the files that carry no usable signature, by what they lack
Unsigned ==
  {[BaseConfig EXCEPT !.layout = l] : l \in {"unsigned", "nocontents", "outofbounds", "badhex", "overflow"}}

FileOf(c) ==
  IF c.layout = "unsigned" THEN UnsignedPdf
  ELSE IF c.layout = "nocontents" THEN NoContentsPdf
  ELSE IF c.layout = "outofbounds" THEN OutOfBoundsPdf
  ELSE IF c.layout = "badhex" THEN BadHexPdf
  ELSE IF c.layout = "overflow" THEN OverflowPdf
  ELSE SignedPdf(c)

(***************************************************************************)
(* core/src/lib.rs: validate_and_extract_pdf on one file, step by step.    *)
(* signer records how the file was written and original the run on the     *)
(* file before a byte of it was altered; neither is read by the program.   *)
(***************************************************************************)
VARIABLES pdf_bytes, debug_feature, signer, pc, byte_range, signed_data, signature_at,
          signature_der, verifier_params, signature_valid, text_pages, result, original,
          objects, walk, page_texts, call, ret, frames

file_vars == <<pdf_bytes, debug_feature, signer, pc, byte_range, signed_data, signature_at,
               signature_der, verifier_params, signature_valid, text_pages, result, original>>
tree_vars == <<objects, walk, page_texts>>
call_vars == <<call, ret, frames>>
vars == <<file_vars, tree_vars, call_vars>>

Pending == [kind |-> "Pending"]

\* no function is being called on its own
NoCall == [fn |-> "none"]

\* no page tree is being walked
NoWalk ==
  [calls |-> <<>>, visited |-> {}, expanded |-> <<>>, pages |-> <<>>, status |-> "Idle",
   err |-> "", variant |-> ""]

Init ==
  /\ call = NoCall
  /\ frames = <<>>
  /\ ret = Pending
  /\ objects = NoObjects
  /\ walk = NoWalk
  /\ page_texts = Pending
  /\ signer \in Configs \cup Unsigned
  /\ pdf_bytes = FileOf(signer)
  /\ debug_feature \in BOOLEAN
  /\ pc = "Start"
  /\ byte_range = Pending
  /\ signed_data = Pending
  /\ signature_at = Pending
  /\ signature_der = Pending
  /\ verifier_params = Pending
  /\ signature_valid = Pending
  /\ text_pages = Pending
  /\ result = Pending
  /\ original = None

\* verify_pdf_signature returns r
Return(r) == signature_valid' = r /\ pc' = "Verified"

\* get_signature_der: the numbers of /ByteRange
ExtractByteRange ==
  /\ pc = "Start"
  /\ byte_range' = extract_byte_range(pdf_bytes)
  /\ IF IsOk(byte_range') THEN pc' = "ByteRange" /\ UNCHANGED signature_valid
     ELSE Return(byte_range')
  /\ UNCHANGED <<pdf_bytes, debug_feature, signer, signed_data, signature_at, signature_der,
                 verifier_params, text_pages, result, original>>
  /\ UNCHANGED <<tree_vars, call_vars>>

\* get_signature_der: the bytes of the two ranges
ExtractSignedData ==
  /\ pc = "ByteRange"
  /\ signed_data' = extract_signed_data(pdf_bytes, byte_range.val)
  /\ IF IsOk(signed_data') THEN pc' = "SignedData" /\ UNCHANGED signature_valid
     ELSE Return(signed_data')
  /\ UNCHANGED <<pdf_bytes, debug_feature, signer, byte_range, signature_at, signature_der,
                 verifier_params, text_pages, result, original>>
  /\ UNCHANGED <<tree_vars, call_vars>>

\* get_signature_der: the hex string after /Contents, decoded
ExtractSignatureHex ==
  /\ pc = "SignedData"
  /\ signature_at' = locate_signature_hex(pdf_bytes, byte_range.val)
  /\ signature_der' =
       LET signature_hex == extract_signature_hex(pdf_bytes, byte_range.val)
       IN  IF ~IsOk(signature_hex) THEN signature_hex
           ELSE hex_to_bytes_internal(signature_hex.val)
  /\ IF IsOk(signature_der') THEN pc' = "Located" /\ UNCHANGED signature_valid
     ELSE Return(signature_der')
  /\ UNCHANGED <<pdf_bytes, debug_feature, signer, byte_range, signed_data,
                 verifier_params, text_pages, result, original>>
  /\ UNCHANGED <<tree_vars, call_vars>>

\* verify_pdf_signature: the CMS structure
ParseSignedData ==
  /\ pc = "Located"
  /\ verifier_params' = parse_signed_data(signature_der.val)
  /\ IF IsOk(verifier_params') THEN pc' = "Parsed" /\ UNCHANGED signature_valid
     ELSE Return(verifier_params')
  /\ UNCHANGED <<pdf_bytes, debug_feature, signer, byte_range, signed_data, signature_at,
                 signature_der, text_pages, result, original>>
  /\ UNCHANGED <<tree_vars, call_vars>>

\* the comparison of the digests made once the RSA key has been constructed
CheckMessageDigestAfterKey ==
  /\ pc = "Parsed"
  /\ LET key == create_rsa_public_key(verifier_params.val)
         matches == check_message_digest(verifier_params.val, signed_data.val)
     IN  IF ~IsOk(key) THEN Return(key)
         ELSE IF ~IsOk(matches) THEN Return(matches)
         ELSE IF ~matches.val THEN Return(Ok(FALSE))
         ELSE pc' = "DigestChecked" /\ UNCHANGED signature_valid
  /\ UNCHANGED <<pdf_bytes, debug_feature, signer, byte_range, signed_data, signature_at,
                 signature_der, verifier_params, text_pages, result, original>>
  /\ UNCHANGED <<tree_vars, call_vars>>

\* verify_pdf_signature: the digest of the signed bytes against messageDigest
CheckMessageDigest ==
  /\ pc = "Parsed"
  /\ LET matches == check_message_digest(verifier_params.val, signed_data.val)
     IN  IF ~IsOk(matches) THEN Return(matches)
         ELSE IF ~matches.val THEN Return(Ok(FALSE))
         ELSE pc' = "DigestChecked" /\ UNCHANGED signature_valid
  /\ UNCHANGED <<pdf_bytes, debug_feature, signer, byte_range, signed_data, signature_at,
                 signature_der, verifier_params, text_pages, result, original>>
  /\ UNCHANGED <<tree_vars, call_vars>>

\* verify_pdf_signature: the digest algorithm against the signature algorithm
CheckAlgConsistency ==
  /\ pc = "DigestChecked"
  /\ LET matches == check_alg_consistency_internal(verifier_params.val)
     IN  IF ~IsOk(matches) THEN Return(matches)
         ELSE IF ~matches.val THEN Return(Ok(FALSE))
         ELSE pc' = "AlgChecked" /\ UNCHANGED signature_valid
  /\ UNCHANGED <<pdf_bytes, debug_feature, signer, byte_range, signed_data, signature_at,
                 signature_der, verifier_params, text_pages, result, original>>
  /\ UNCHANGED <<tree_vars, call_vars>>

\* verify_pdf_signature: the RSA verification over the signed attributes
VerifySignedAttrs ==
  /\ pc = "AlgChecked"
  /\ Return(verify_signed_attrs(verifier_params.val, debug_feature))
  /\ UNCHANGED <<pdf_bytes, debug_feature, signer, byte_range, signed_data, signature_at,
                 signature_der, verifier_params, text_pages, result, original>>
  /\ UNCHANGED <<tree_vars, call_vars>>

\* validate_and_extract_pdf: the `?` on verify_pdf_signature
ReturnSignatureError ==
  /\ pc = "Verified"
  /\ ~IsOk(signature_valid)
  /\ result' = signature_valid
  /\ pc' = "Done"
  /\ UNCHANGED <<pdf_bytes, debug_feature, signer, byte_range, signed_data, signature_at,
                 signature_der, verifier_params, signature_valid, text_pages, original>>
  /\ UNCHANGED <<tree_vars, call_vars>>

\* validate_and_extract_pdf: the text, and the result
ExtractText ==
  /\ pc = "Verified"
  /\ IsOk(signature_valid)
  /\ text_pages' = extract_text(pdf_bytes)
  /\ result' = IF IsErr(text_pages') THEN Err("Text extraction failed")
               ELSE IF ~IsOk(text_pages') THEN text_pages'
               ELSE Ok([signature_valid |-> signature_valid.val,
                        text_pages |-> text_pages'.val])
  /\ pc' = "Done"
  /\ UNCHANGED <<pdf_bytes, debug_feature, signer, byte_range, signed_data, signature_at,
                 signature_der, verifier_params, signature_valid, original>>
  /\ UNCHANGED <<tree_vars, call_vars>>

\* the positions of the byte ranges that hold neither the /ByteRange entry nor
\* the /Contents key of the signature dictionary
SignedPositions(data, range) ==
  LET in_ranges == (range.offset1..(range.offset1 + range.length1 - 1))
                   \cup (range.offset2..(range.offset2 + range.length2 - 1))
      entry == find_pattern_internal(data, ByteRangePattern).v
      entry_end == find_byte_internal(data, 93, entry).v
      key_end == signature_at.val.hex_start - 1
  IN  {p \in in_ranges : ~(entry <= p /\ p <= entry_end)
                         /\ ~(key_end - Len(ContentsPattern) <= p /\ p < key_end)}

\* the value a byte is altered to
AlteredBytes(b) == {(b + 1) % 256}

\* the files someone alters
Altered == {BaseConfig, [BaseConfig EXCEPT !.digest = "Sha1", !.outer = "Sha1"]}

\* someone alters one signed byte of a file whose signature has verified, and
\* the file is validated again
Tamper ==
  /\ pc = "Done"
  /\ ~original.some
  /\ signer \in Altered
  /\ IsOk(result) /\ result.val.signature_valid
  /\ \E p \in SignedPositions(pdf_bytes, byte_range.val) :
       \E b \in AlteredBytes(At(pdf_bytes, p)) :
         /\ pdf_bytes' = [pdf_bytes EXCEPT ![p + 1] = b]
         /\ original' = Some([pdf_bytes |-> pdf_bytes, at |-> p, result |-> result])
  /\ pc' = "Start"
  /\ byte_range' = Pending
  /\ signed_data' = Pending
  /\ signature_at' = Pending
  /\ signature_der' = Pending
  /\ verifier_params' = Pending
  /\ signature_valid' = Pending
  /\ text_pages' = Pending
  /\ result' = Pending
  /\ UNCHANGED <<debug_feature, signer>>
  /\ UNCHANGED <<tree_vars, call_vars>>

Next ==
  \/ ExtractByteRange
  \/ ExtractSignedData
  \/ ExtractSignatureHex
  \/ ParseSignedData
  \/ CheckMessageDigest
  \/ CheckAlgConsistency
  \/ VerifySignedAttrs
  \/ ReturnSignatureError
  \/ ExtractText
  \/ Tamper

Spec == Init /\ [][Next]_vars

(***************************************************************************)
(* Properties of validate_and_extract_pdf and verify_pdf_signature         *)
(***************************************************************************)
\* verify_pdf_signature has returned
Returned == pc \in {"Verified", "Done"}

\* the bytes the two ranges of /ByteRange name
SignedRegion ==
  Slice(pdf_bytes, byte_range.val.offset1, byte_range.val.offset1 + byte_range.val.length1)
  \o Slice(pdf_bytes, byte_range.val.offset2, byte_range.val.offset2 + byte_range.val.length2)

\* the hash a digestAlgorithm OID names
HashOfOid(oid) ==
  IF oid = OidSha1 THEN "Sha1"
  ELSE IF oid = OidSha256 THEN "Sha256"
  ELSE IF oid = OidSha384 THEN "Sha384"
  ELSE "Sha512"

\* (i) the hash of the signed region is the messageDigest attribute
RegionDigestMatches ==
  /\ IsOk(byte_range) /\ IsOk(signed_data) /\ IsOk(verifier_params)
  /\ verifier_params.val.signed_attrs_message_digest.some
  /\ verifier_params.val.signed_attrs_message_digest.v
       = Digest(HashOfOid(verifier_params.val.digest_algorithm.v), SignedRegion)

\* (ii) the signatureAlgorithm the signer wrote names the hash of digestAlgorithm
AlgorithmsAgree == signer.outer = signer.digest

\* (iii) the signature opens, under the certificate's key, to the padded
\* DigestInfo of the re-serialized signed attributes
AttrsSignatureVerifies ==
  /\ IsOk(verifier_params)
  /\ LET params == verifier_params.val
         hash_alg == HashOfOid(params.digest_algorithm.v)
     IN  Pkcs1v15Verify([n |-> params.modulus.v, e |-> params.exponent.v],
                        DigestInfoPrefix(hash_alg) \o Digest(hash_alg, params.signed_attrs_der.v),
                        params.signature)

\* C1: validate_and_extract_pdf yields both fields whenever the text can be
\* extracted: a failure of the signature path gives signature_valid = false
\* together with the pages' text, not a failure of the call.
BothFieldsAlwaysPresent ==
  (pc = "Done" /\ ~IsOk(signature_valid) /\ IsOk(extract_text(pdf_bytes)))
    => /\ IsOk(result)
       /\ result.val.signature_valid = FALSE
       /\ result.val.text_pages = extract_text(pdf_bytes).val

\* C2: verify_pdf_signature returns true only if the hash of the signed region
\* equals messageDigest, the digest OID matches the outer signature algorithm,
\* and the RSA verification of the signed attributes succeeds.
TrueOnlyIfThreeChecks ==
  (Returned /\ signature_valid = Ok(TRUE))
    => RegionDigestMatches /\ AlgorithmsAgree /\ AttrsSignatureVerifies

\* C3: when the CMS structure parses and the digest recomputed over the signed
\* ranges differs from messageDigest, verify_pdf_signature returns false.
DigestMismatchReturnsFalse ==
  (Returned /\ IsOk(verifier_params) /\ ~RegionDigestMatches)
    => signature_valid = Ok(FALSE)

\* a file whose messageDigest is not the digest of its signed region was verified
DigestMismatchSeen ==
  /\ pc = "Done" /\ signer.md = "bad" /\ IsOk(verifier_params) /\ ~RegionDigestMatches
  /\ signature_valid = Ok(FALSE)

\* the result is an error of create_rsa_public_key
KeyConstructionError ==
  /\ IsErr(signature_valid)
  /\ signature_valid.err \in {"Modulus not found", "Exponent not found",
                              "Failed to create modulus", "Failed to create exponent",
                              "Failed to create RSA public key"}

\* C17: verify_pdf_signature compares the content digest first, then checks
\* the algorithms, then constructs the RSA key and verifies: a content digest
\* that differs from messageDigest gives Ok(false) whatever the key and the
\* signature bytes are, and an error of the key construction is returned only
\* by the step that follows both checks, after both have passed.
ChecksRunInOrder ==
  /\ []((Returned /\ IsOk(verifier_params) /\ ~RegionDigestMatches)
          => signature_valid = Ok(FALSE))
  /\ [][/\ pc' = "DigestChecked" => pc = "Parsed" /\ RegionDigestMatches
        /\ pc' = "AlgChecked"
             => /\ pc = "DigestChecked"
                /\ check_alg_consistency_internal(verifier_params.val) = Ok(TRUE)
        /\ (KeyConstructionError' /\ ~KeyConstructionError)
             => pc = "AlgChecked" /\ RegionDigestMatches]_vars

\* a file with a wrong messageDigest and a certificate whose modulus is even
\* has been verified: false, although no RSA key can be constructed
MismatchWithUnusableKey ==
  /\ Returned /\ signer.md = "bad" /\ signer.cert = "evenkey"
  /\ ~RegionDigestMatches
  /\ ~IsOk(create_rsa_public_key(verifier_params.val))
  /\ signature_valid = Ok(FALSE)

\* C4: when the hash of the outer signature algorithm disagrees with the
\* digestAlgorithm OID, verification returns false, neither true nor an error.
AlgorithmMismatchReturnsFalse ==
  (Returned /\ IsOk(verifier_params) /\ ~AlgorithmsAgree)
    => signature_valid = Ok(FALSE)

\* the file has been validated again after one of its signed bytes was altered
TamperedDone == pc = "Done" /\ original.some

StructuralFailureIsErr ==
  (Returned /\ (\/ signer.der = "truncated"
                \/ signer.layout \in {"unsigned", "nocontents"}
                \/ signer.cert = "nomatch"
                \/ signer.digest = "Md5"
                \/ signer.md = "missing"))
    => IsErr(signature_valid)

\* a file without the messageDigest attribute was rejected with an error
MissingDigestRejected ==
  pc = "Done" /\ signer.md = "missing" /\ IsErr(signature_valid) /\ result = signature_valid

\* the structure parsed and the digest and algorithm checks passed
ChecksPassed ==
  /\ IsOk(verifier_params) /\ IsOk(signed_data)
  /\ check_message_digest(verifier_params.val, signed_data.val) = Ok(TRUE)
  /\ check_alg_consistency_internal(verifier_params.val) = Ok(TRUE)

\* C7: once the structure has parsed and the digest and algorithm checks have
\* passed, a signature of another length than the modulus, or one that opens
\* to wrong padding or DigestInfo, gives Ok(false) rather than an error.
InvalidSignatureIsFalse ==
  (Returned /\ ChecksPassed
     /\ (\/ Len(verifier_params.val.signature) # Len(verifier_params.val.modulus.v)
         \/ ~AttrsSignatureVerifies))
    => signature_valid = Ok(FALSE)

\* C8: the hex string decoded as the signature DER lies in the gap between
\* the two ranges of /ByteRange, not inside a signed range.
SignatureHexInGap ==
  (IsOk(signature_at) /\ IsOk(signature_der))
    => /\ byte_range.val.offset1 + byte_range.val.length1 <= signature_at.val.hex_start
       /\ signature_at.val.hex_end <= byte_range.val.offset2

\* C11: logging is advisory: verify_pdf_signature returns the same outcome
\* on a file whether the debug feature is compiled in or not.
LoggingDoesNotAffectResults ==
  Returned => signature_valid = verify_pdf_signature(pdf_bytes, ~debug_feature)

(***************************************************************************)
(* extractor/src/parser.rs, extractor/src/lib.rs: the page tree of an      *)
(* object table, walked call by call, and the text of its pages            *)
(***************************************************************************)
\* the object tables: NodeCount nodes, each a Page, a Pages node with up to
\* MaxKids kids, a dictionary of no type with a kid, or a stream; a content
\* stream; kids may name a node, themselves, an ancestor, or no object at all
NodeCount == 3
MaxKids == 2
ContentId == NodeCount + 1
DanglingId == NodeCount + 2

Ref(id) == PdfReference(id, 0)
TypeEntry(name) == DictInsert(EmptyDict, B("Type"), PdfName(B(name)))

KidLists ==
  UNION {[1..n -> 1..NodeCount] : n \in 0..MaxKids} \cup {<<DanglingId>>, <<1, DanglingId>>}

KidsEntry(dict, kids) ==
  DictInsert(dict, B("Kids"), PdfArray([k \in 1..Len(kids) |-> Ref(kids[k])]))

Nodes ==
  {PdfDictionary(TypeEntry("Page")),
   PdfDictionary(DictInsert(TypeEntry("Page"), B("Contents"), Ref(ContentId))),
   PdfDictionary(KidsEntry(EmptyDict, <<NodeCount>>)),
   PdfStream(EmptyDict, B("BT (No) Tj ET"))}
  \cup {PdfDictionary(KidsEntry(TypeEntry("Pages"), kids)) : kids \in KidLists}

Tables ==
  {[k \in {<<id, 0>> : id \in 1..ContentId} |->
      IF k[1] = ContentId THEN PdfStream(EmptyDict, B("BT (Hi) Tj ET")) ELSE nodes[k[1]]] :
     nodes \in [1..NodeCount -> Nodes]}

\* the most calls that may wait, and the most nodes that may be expanded
MaxCalls == 8
MaxExpanded == 8

TreeInit ==
  /\ call = NoCall
  /\ frames = <<>>
  /\ ret = Pending
  /\ objects = NoObjects
  /\ walk = NoWalk
  /\ page_texts = Pending
  /\ pdf_bytes = <<>>
  /\ debug_feature = FALSE
  /\ signer = BaseConfig
  /\ pc = "Tree"
  /\ byte_range = Pending
  /\ signed_data = Pending
  /\ signature_at = Pending
  /\ signature_der = Pending
  /\ verifier_params = Pending
  /\ signature_valid = Pending
  /\ text_pages = Pending
  /\ result = Pending
  /\ original = None

\* parse_page_tree on an object table whose root names object 1 as its Pages
ParsePageTree ==
  /\ walk.status = "Idle"
  /\ \E table \in Tables :
       /\ objects' = table
       /\ walk' = FirstCall(<<1, 0>>)
  /\ UNCHANGED <<page_texts, file_vars, call_vars>>

\* one call of collect_pages
CollectPagesCall ==
  /\ walk.status = "Run"
  /\ walk.calls # <<>>
  /\ Len(walk.calls) <= MaxCalls
  /\ Len(walk.expanded) <= MaxExpanded
  /\ walk' = collect_pages(objects, walk)
  /\ UNCHANGED <<objects, page_texts, file_vars, call_vars>>

\* the first call returns to parse_page_tree
CollectPagesReturn ==
  /\ walk.status = "Run"
  /\ walk.calls = <<>>
  /\ walk' = [walk EXCEPT !.status = "Ok"]
  /\ UNCHANGED <<objects, page_texts, file_vars, call_vars>>

\* extract_text_from_document on the pages collected
ExtractTextFromDocument ==
  /\ walk.status = "Ok"
  /\ page_texts = Pending
  /\ page_texts' = extract_text_from_document(walk.pages, objects)
  /\ UNCHANGED <<objects, walk, file_vars, call_vars>>

TreeNext ==
  \/ ParsePageTree
  \/ CollectPagesCall
  \/ CollectPagesReturn
  \/ ExtractTextFromDocument

\* the traversal runs on: a call of collect_pages that can be made is made, and
\* the first call returns when none is left
TreeSpec ==
  TreeInit /\ [][TreeNext]_vars /\ WF_vars(CollectPagesCall \/ CollectPagesReturn)

(***************************************************************************)
(* Properties of the page tree traversal                                   *)
(***************************************************************************)
\* the references in the Kids array of a node
KidsOf(table, ref) ==
  IF ref \in DOMAIN table /\ table[ref].t = "Dictionary"
     /\ DictHas(table[ref].dict, B("Kids"), "Array")
  THEN LET kids == table[ref].dict[B("Kids")].items
       IN  {RefOf(kids[k]) : k \in {j \in 1..Len(kids) : kids[j].t = "Reference"}}
  ELSE {}

IsPagesNode(table, ref) ==
  ref \in DOMAIN table /\ table[ref].t = "Dictionary"
  /\ PageType(table[ref].dict) = B("Pages")

IsPageNode(table, ref) ==
  ref \in DOMAIN table /\ table[ref].t = "Dictionary"
  /\ PageType(table[ref].dict) = B("Page")

\* the nodes reached from a set of nodes through Kids: of any node that has
\* Kids, or of the /Type /Pages nodes only
RECURSIVE ReachedFrom(_, _, _)
ReachedFrom(table, refs, pages_only) ==
  LET more == UNION {KidsOf(table, r) :
                       r \in {q \in refs : ~pages_only \/ IsPagesNode(table, q)}}
  IN  IF more \subseteq refs THEN refs ELSE ReachedFrom(table, refs \cup more, pages_only)

PageNodesReached(pages_only) ==
  {r \in ReachedFrom(objects, {<<1, 0>>}, pages_only) : IsPageNode(objects, r)}

\* the text of the pages has been extracted
TextExtracted == walk.status = "Ok" /\ IsOk(page_texts)

\* C9: on success the number of text pages is the number of /Type /Page nodes
\* reachable from the root Pages reference through Kids, pages without content
\* streams included.
PageCountIsReachableByKids ==
  TextExtracted => Len(page_texts.val) = Cardinality(PageNodesReached(FALSE))

\* C9 (amended): on success the number of text pages is the number of
\* /Type /Page nodes reachable from the root Pages reference through the Kids
\* of /Type /Pages nodes, pages without content streams included.
PageCountIsReachableByPagesKids ==
  TextExtracted => Len(page_texts.val) = Cardinality(PageNodesReached(TRUE))

\* two pages were counted, one of them without a content stream
EmptyPageCounted ==
  /\ TextExtracted /\ Len(page_texts.val) = 2
  /\ \E k \in 1..Len(walk.pages) : walk.pages[k].content_streams = <<>>
  /\ \E k \in 1..Len(walk.pages) : walk.pages[k].content_streams # <<>>

\* no node is expanded twice
ExpandedOnce ==
  \A j, k \in 1..Len(walk.expanded) : walk.expanded[j] = walk.expanded[k] => j = k

\* C10: collect_pages terminates on every object table, Kids cycles and a
\* node listed among its own descendants included, and expands each object
\* reference at most once.
CollectPagesTerminates ==
  []ExpandedOnce /\ (walk.status = "Run" ~> walk.status \in {"Ok", "Err"})

\* the traversal of a tree whose root lists itself and another node has returned
CycleTraversed ==
  /\ walk.status = "Ok"
  /\ <<1, 0>> \in KidsOf(objects, <<1, 0>>)
  /\ Len(walk.expanded) >= 2

(***************************************************************************)
(* extractor/src/parser.rs: the resources of the pages.  The page tree is   *)
(* the root 1 with the Pages nodes 2 and 3, the Page 4 under 2 and the Page *)
(* 5 under 3; every node has its own choice of /Resources.                 *)
(***************************************************************************)
\* the entries a node may have: each value names the node that wrote it
ResourceEntry(id, key) == DictInsert(EmptyDict, B(key), PdfName(B("N") \o <<48 + id>>))
BothEntries(id) ==
  DictInsert(ResourceEntry(id, "ExtGState"), B("ColorSpace"), PdfName(B("N") \o <<48 + id>>))

\* /Resources of a node: absent, a dictionary of one or two entries, a
\* reference to such a dictionary (object 10 + id), or a reference to no object
ResourceChoices ==
  {"absent", "ExtGState", "ColorSpace", "both", "referenced", "dangling"}

WithResources(dict, id, choice) ==
  CASE choice = "absent" -> dict
    [] choice = "ExtGState" -> DictInsert(dict, B("Resources"),
                                          PdfDictionary(ResourceEntry(id, "ExtGState")))
    [] choice = "ColorSpace" -> DictInsert(dict, B("Resources"),
                                           PdfDictionary(ResourceEntry(id, "ColorSpace")))
    [] choice = "both" -> DictInsert(dict, B("Resources"), PdfDictionary(BothEntries(id)))
    [] choice = "referenced" -> DictInsert(dict, B("Resources"), Ref(10 + id))
    [] choice = "dangling" -> DictInsert(dict, B("Resources"), Ref(20 + id))

\* the nodes of the tree and the Kids of each
TreeNodes == {1, 2, 3, 4, 5}
TreeKids(id) == IF id = 1 THEN <<2, 3>> ELSE IF id = 2 THEN <<4>> ELSE IF id = 3 THEN <<5>>
                ELSE <<>>

ResourceTables ==
  {[k \in {<<id, 0>> : id \in TreeNodes} \cup {<<10 + id, 0>> : id \in TreeNodes} |->
      IF k[1] > 10 THEN PdfDictionary(BothEntries(k[1] - 10))
      ELSE IF k[1] <= 3
        THEN PdfDictionary(WithResources(KidsEntry(TypeEntry("Pages"), TreeKids(k[1])),
                                         k[1], choice[k[1]]))
      ELSE PdfDictionary(WithResources(TypeEntry("Page"), k[1], choice[k[1]]))] :
     choice \in [TreeNodes -> ResourceChoices]}

\* parse_page_tree on one of these object tables
ParseResourceTree ==
  /\ walk.status = "Idle"
  /\ \E table \in ResourceTables :
       /\ objects' = table
       /\ walk' = FirstCall(<<1, 0>>)
  /\ UNCHANGED <<page_texts, file_vars, call_vars>>

ResourceNext ==
  \/ ParseResourceTree
  \/ CollectPagesCall
  \/ CollectPagesReturn

ResourceSpec == TreeInit /\ [][ResourceNext]_vars

\* the /Resources dictionary of a node, direct or referenced; none otherwise
ResourcesOfNode(ref) ==
  IF DictOrReferenced(objects[ref].dict, B("Resources"), objects).some
    THEN DictOrReferenced(objects[ref].dict, B("Resources"), objects).v
  ELSE EmptyDict

\* the Pages node that lists a node among its Kids
ParentOf(ref) == CHOOSE p \in DOMAIN objects : ref \in KidsOf(objects, p)

\* a page and its ancestors, the nearest first
RECURSIVE NearestFirst(_)
NearestFirst(ref) ==
  IF \E p \in DOMAIN objects : ref \in KidsOf(objects, p)
    THEN <<ref>> \o NearestFirst(ParentOf(ref))
  ELSE <<ref>>

\* the key-wise union of the resources of a page and of its ancestors, the
\* entry of the nearest node that has the key
NearestWins(ref) ==
  LET chain == NearestFirst(ref)
      Has(key) == {k \in 1..Len(chain) : key \in DOMAIN ResourcesOfNode(chain[k])}
      Nearest(key) == chain[CHOOSE k \in Has(key) : \A j \in Has(key) : k <= j]
  IN  [key \in UNION {DOMAIN ResourcesOfNode(chain[k]) : k \in 1..Len(chain)} |->
         ResourcesOfNode(Nearest(key))[key]]

\* the Page nodes in the order their PageContent was pushed
PagesExpanded == SelectSeq(walk.expanded, LAMBDA ref : IsPageNode(objects, ref))

\* C19: the resources of a page are the key-wise union of the Resources of
\* its ancestor Pages nodes and its own; on a collision the entry of the node
\* nearest to the page wins (the page first, then the closest ancestor), and
\* nothing of a sibling subtree is among them.
ResourcesAreInherited ==
  walk.status = "Ok"
    => /\ Len(walk.pages) = Len(PagesExpanded)
       /\ \A k \in 1..Len(walk.pages) :
            walk.pages[k].resources = NearestWins(PagesExpanded[k])

\* page 4 has its own ExtGState, its parent both entries, the root and the
\* sibling subtree both entries too: the page's ExtGState and the parent's
\* ColorSpace are the resources of the page
CollisionResolved ==
  /\ walk.status = "Ok" /\ Len(walk.pages) = 2
  /\ walk.pages[1].resources
       = DictInsert(ResourceEntry(4, "ExtGState"), B("ColorSpace"), PdfName(B("N2")))
  /\ ResourcesOfNode(<<1, 0>>) = BothEntries(1)
  /\ ResourcesOfNode(<<2, 0>>) = BothEntries(2)
  /\ ResourcesOfNode(<<3, 0>>) = BothEntries(3)
  /\ ResourcesOfNode(<<5, 0>>) = BothEntries(5)

(***************************************************************************)
(* extractor/src/lib.rs: extract_text on one file, step by step.  The      *)
(* files are a catalog, a page tree of one page and its content stream,    *)
(* written with the filter, the /DecodeParms, the /Length and the trailer  *)
(* that signer records.                                                    *)
(***************************************************************************)
PlainBody == B("BT (Hello) Tj ET")
\* the rows of a PNG predictor over four columns, the predictor byte 0 first
PredictedRows ==
  <<0>> \o B("BT (") \o <<0>> \o B("Hi) ") \o <<0>> \o B("Tj E") \o <<0>> \o B("T   ")
HexBody == HexEncode(PredictedRows) \o B(">")

Filters ==
  {"", "/Filter/ASCIIHexDecode", "/Filter[/ASCIIHexDecode]", "/Filter/FlateDecode",
   "/Filter/LZWDecode", "/Filter 7"}
DecodeParms ==
  {"", "/DecodeParms<</Predictor 12/Columns 4>>", "/DecodeParms<</Predictor 12/Columns 5>>",
   "/DecodeParms<</Predictor 15/Columns 6>>", "/DecodeParms[<</Predictor 10/Columns 2>>]",
   "/DecodeParms[<</Predictor 10/Columns 4>>]", "/DecodeParms<</Predictor 12>>",
   "/DecodeParms<</Predictor 2/Columns 4>>", "/DecodeParms<</Predictor 12/Columns 0>>",
   "/DecodeParms null", "/DecodeParms 1"}
Lengths == {"exact", "before the end of line", "inside the data", "inside endstream",
            "past the file", "absent", "a reference"}
\* ends of a file without the keyword: a cross-reference stream whose data is
\* shorter than one entry, as it is and with a filter that is not known
XRefUnknownFilter ==
  "6 0 obj<</Type/XRef/W[1 1 1]/Root 1 0 R/Filter/Foo/Length 1>>stream\nx\nendstream endobj\n"

XRefTrailers ==
  {"6 0 obj<</Type/XRef/W[1 1 1]/Root 1 0 R/Length 1>>stream\nx\nendstream endobj\n",
   XRefUnknownFilter,
   "6 0 obj<</Type/XRef/W[1 1]/Root 1 0 R/Length 1>>stream\nx\nendstream endobj\n"}

\* ends of a file with an object stream whose filter is not known, or fails
ObjStmTrailers ==
  {"6 0 obj<</Type/ObjStm/First 0/N 0/Filter/Foo/Length 1>>stream\nx\nendstream endobj\ntrailer<</Root 1 0 R>>\n",
   "6 0 obj<</Type/ObjStm/First 0/N 0/Filter/ASCIIHexDecode/Length 1>>stream\nx\nendstream endobj\ntrailer<</Root 1 0 R>>\n"}

\* ends of a file that was updated: after the first cross-reference section a
\* second catalog, object 7, and a second section; the last trailer names the
\* first catalog or the second
UpdateTrailers ==
  {"xref\n0 1\n0000000000 65535 f \ntrailer<</Root 1 0 R>>\nstartxref\n9\n%%EOF\n7 0 obj<</Type/Catalog/Pages 2 0 R>>endobj\nxref\n0 1\n0000000000 65535 f \ntrailer<</Root 1 0 R>>\nstartxref\n9\n%%EOF\n",
   "xref\n0 1\n0000000000 65535 f \ntrailer<</Root 1 0 R>>\nstartxref\n9\n%%EOF\n7 0 obj<</Type/Catalog/Pages 2 0 R>>endobj\nxref\n0 1\n0000000000 65535 f \ntrailer<</Root 7 0 R>>\nstartxref\n9\n%%EOF\n",
   "trailer<</Root 1 0 R>>\n7 0 obj<</Type/Catalog/Pages 2 0 R>>endobj\ntrailer<</Root 7 0 R>>\n"}

Trailers ==
  {"trailer<</Root 1 0 R>>\n", "", "%trailer\n", "trailer<</Size 5>>\n",
   "trailer<</Root 9 0 R>>\n", "trailer<</Root 4 0 R>>\n", "trailer<</Root 2 0 R>>\n",
   "trailer<</Root<</Pages 2 0 R>>>>\n", "trailer<</Root 1 0 R\n",
   "xref\n0 1\n0000000000 65535 f \ntrailer<</Root 1 0 R>>\nstartxref\n9\n%%EOF\n",
   "6 0 obj<</Type/XRef/Length 1>>stream\nx\nendstream endobj\n"}
  \cup XRefTrailers \cup ObjStmTrailers \cup UpdateTrailers

PlainFile == [filter |-> "", parms |-> "", body |-> "plain", length |-> "exact",
              trailer |-> "trailer<</Root 1 0 R>>\n"]

ExtractConfigs ==
  {[PlainFile EXCEPT !.filter = f, !.parms = p, !.body = b] :
     f \in Filters, p \in DecodeParms, b \in {"plain", "hex"}}
  \cup {[PlainFile EXCEPT !.length = l, !.trailer = t] : l \in Lengths, t \in Trailers}

BodyOf(c) == IF c.body = "hex" THEN HexBody ELSE PlainBody

\* the number a numeric /Length declares
DeclaredLength(c) ==
  LET n == Len(BodyOf(c))
  IN  CASE c.length = "exact" -> n + 1
        [] c.length = "before the end of line" -> n
        [] c.length = "inside the data" -> n - 6
        [] c.length = "inside endstream" -> n + 4
        [] c.length = "past the file" -> 9999

LengthEntry(c) ==
  CASE c.length = "absent" -> <<>>
    [] c.length = "a reference" -> B("/Length 5 0 R")
    [] OTHER -> B("/Length ") \o Dec4(DeclaredLength(c))

StreamObj(c) ==
  B("4 0 obj<<") \o LengthEntry(c) \o B(c.filter) \o B(c.parms) \o B(">>stream\n")
  \o BodyOf(c) \o B("\nendstream endobj\n")

ExtractFile(c) ==
  PdfHeader \o CatalogObj \o PagesObj \o PageObj \o StreamObj(c) \o B(c.trailer)

ExtractInit ==
  /\ call = NoCall
  /\ frames = <<>>
  /\ ret = Pending
  /\ objects = NoObjects
  /\ walk = NoWalk
  /\ page_texts = Pending
  /\ signer \in ExtractConfigs
  /\ pdf_bytes = ExtractFile(signer)
  /\ debug_feature = FALSE
  /\ pc = "Extract"
  /\ byte_range = Pending
  /\ signed_data = Pending
  /\ signature_at = Pending
  /\ signature_der = Pending
  /\ verifier_params = Pending
  /\ signature_valid = Pending
  /\ text_pages = Pending
  /\ result = Pending
  /\ original = None

\* parse_pdf up to the first call of collect_pages
ParsePdf ==
  /\ pc = "Extract"
  /\ LET file == ScanFile(pdf_bytes)
         pages_ref == PagesReference(file.val.objects, file.val.root_ref)
     IN  IF ~IsOk(file)
           THEN text_pages' = file /\ pc' = "Done" /\ UNCHANGED <<objects, walk>>
         ELSE IF ~IsOk(pages_ref)
           THEN /\ text_pages' = pages_ref /\ pc' = "Done"
                /\ objects' = file.val.objects /\ UNCHANGED walk
         ELSE /\ objects' = file.val.objects /\ walk' = FirstCall(pages_ref.val)
              /\ pc' = "Pages" /\ UNCHANGED text_pages
  /\ UNCHANGED <<pdf_bytes, debug_feature, signer, byte_range, signed_data, signature_at,
                 signature_der, verifier_params, signature_valid, result, original,
                 page_texts, call_vars>>

\* extract_text returns: the failure of parse_pdf, or the texts of the pages
ExtractTextReturn ==
  /\ pc = "Pages"
  /\ \/ walk.status \notin {"Run", "Ok"} /\ text_pages' = PagesCollected(walk)
     \/ page_texts # Pending /\ text_pages' = MapParseError(page_texts)
  /\ pc' = "Done"
  /\ UNCHANGED <<pdf_bytes, debug_feature, signer, byte_range, signed_data, signature_at,
                 signature_der, verifier_params, signature_valid, result, original,
                 tree_vars, call_vars>>

ExtractNext ==
  \/ ParsePdf
  \/ CollectPagesCall
  \/ CollectPagesReturn
  \/ ExtractTextFromDocument
  \/ ExtractTextReturn

ExtractSpec == ExtractInit /\ [][ExtractNext]_vars

(***************************************************************************)
(* Properties of extract_text                                              *)
(***************************************************************************)
\* extract_text has returned
TextReturned == pc = "Done" /\ text_pages # Pending

\* the steps return what extract_text returns
StepsAreExtractText == TextReturned => text_pages = extract_text(pdf_bytes)

\* the content stream of the page, object 4
ContentStream == objects[<<4, 0>>]

\* the content stream has one filter, which decodes its data, and /DecodeParms
\* with a PNG predictor whose Columns + 1 does not divide the decoded size
PredictorRowsDoNotFit ==
  /\ <<4, 0>> \in DOMAIN objects
  /\ ContentStream.t = "Stream"
  /\ DictHas(ContentStream.dict, B("Filter"), "Name")
  /\ DictHas(ContentStream.dict, B("DecodeParms"), "Dictionary")
  /\ LET parms == ContentStream.dict[B("DecodeParms")].dict
         decoded == apply_filter(ContentStream.dict[B("Filter")].name, ContentStream.data)
     IN  /\ DictHas(parms, B("Predictor"), "Number")
         /\ parms[B("Predictor")].milli \in {1000 * p : p \in 10..15}
         /\ DictHas(parms, B("Columns"), "Number")
         /\ parms[B("Columns")].milli >= 0
         /\ parms[B("Columns")].milli % 1000 = 0
         /\ IsOk(decoded)
         /\ Len(decoded.val) % (parms[B("Columns")].milli \div 1000 + 1) # 0

\* the positions of the file where a keyword is written
Occurrences(keyword) ==
  {i \in 0..(Len(pdf_bytes) - Len(keyword)) :
     Slice(pdf_bytes, i, i + Len(keyword)) = keyword}

\* the file has no `trailer` keyword and no /XRef name, so no stream of /Type /XRef
NoTrailerNoXRef == Occurrences(B("trailer")) = {} /\ Occurrences(B("/XRef")) = {}

\* the indirect objects of the file
ObjectsOfFile == ObjectLoop(pdf_bytes, SkipHeader(pdf_bytes), NoObjects)

\* the dictionary after the last `trailer` keyword of the file
LastTrailer ==
  parse_dictionary(pdf_bytes, skip_whitespace_and_comments(
    pdf_bytes, (CHOOSE i \in Occurrences(B("trailer")) :
                  \A k \in Occurrences(B("trailer")) : k <= i) + 7))

\* the keys of the indirect objects written in the file: `n g obj` at the start
\* of a line, a value and `endobj`
ObjectsInFile ==
  {IndirectObject(pdf_bytes, p).val.key :
     p \in {q \in 0..(Len(pdf_bytes) - 1) :
              /\ q = 0 \/ At(pdf_bytes, q - 1) = 10
              /\ At(pdf_bytes, q) \in AsciiDigits
              /\ IsOk(IndirectObject(pdf_bytes, q))}}

\* the trailer has no /Root, or its /Root is a reference to no object of the
\* file or to an object that is not a dictionary
RootNotADictionary ==
  /\ Occurrences(B("trailer")) # {}
  /\ IsOk(LastTrailer)
  /\ IsOk(ObjectsOfFile)
  /\ LET trailer_dict == LastTrailer.val.dict
         table == ObjectsOfFile.val.objects
     IN  \/ B("Root") \notin DOMAIN trailer_dict
         \/ /\ trailer_dict[B("Root")].t = "Reference"
            /\ \/ RefOf(trailer_dict[B("Root")]) \notin DOMAIN table \cup ObjectsInFile
               \/ /\ RefOf(trailer_dict[B("Root")]) \in DOMAIN table
                  /\ table[RefOf(trailer_dict[B("Root")])].t # "Dictionary"

\* C14: extract_text fails with a ParseError, and returns no page list, when
\* the file has neither a trailer keyword nor a /Type /XRef stream, and when
\* the /Root of its trailer is absent or does not resolve to a dictionary.
MissingTrailerOrRootIsParseError ==
  (TextReturned /\ (NoTrailerNoXRef \/ RootNotADictionary))
    => (IsErr(text_pages) /\ text_pages.variant = "ParseError")

\* a file without trailer and cross-reference stream has been rejected
MissingTrailerRejected == TextReturned /\ NoTrailerNoXRef /\ IsErr(text_pages)

\* C12: when the DecodeParms of a page content stream has a PNG predictor
\* (10..15) whose Columns does not divide the decoded size into whole rows of
\* Columns + 1 bytes, extract_text fails with a DecompressionError.
PredictorMisfitIsDecompressionError ==
  (TextReturned /\ PredictorRowsDoNotFit)
    => (IsErr(text_pages) /\ text_pages.variant = "DecompressionError")

\* the first position at or after pos, counted from 0, that holds no whitespace
RECURSIVE AfterWhitespace(_)
AfterWhitespace(pos) ==
  IF pos < Len(pdf_bytes) /\ At(pdf_bytes, pos) \in AsciiWhitespace
    THEN AfterWhitespace(pos + 1)
  ELSE pos

\* where the data of the content stream starts: after "stream" and its end of line
StreamDataStart ==
  (CHOOSE pos \in Occurrences(B(">>stream\n")) :
     \A other \in Occurrences(B(">>stream\n")) : pos <= other) + 9

\* the content stream has a numeric /Length whose end lies inside the file and,
\* whitespace skipped, is not where endstream is written
DeclaredEndMissesEndstream ==
  /\ signer.length \notin {"absent", "a reference"}
  /\ StreamDataStart + DeclaredLength(signer) <= Len(pdf_bytes)
  /\ AfterWhitespace(StreamDataStart + DeclaredLength(signer))
       \notin Occurrences(B("endstream"))

\* C18: when the numeric /Length of a stream ends inside the file but not on
\* endstream (whitespace skipped), the parser searches forward for a
\* whitespace-bordered endstream and still produces the stream object: the
\* parse does not fail, and the page's text is that of the stream.
LengthMisfitFallsBackToSearch ==
  (TextReturned /\ DeclaredEndMissesEndstream
     /\ signer.trailer = PlainFile.trailer)
    => /\ <<4, 0>> \in DOMAIN objects
       /\ ContentStream.t = "Stream"
       /\ text_pages = Ok(<<B("Hello")>>)

(***************************************************************************)
(* extractor/src/stream.rs, extractor/src/text.rs: functions called on     *)
(* their own.  call holds the function and its arguments, ret what it      *)
(* returns.                                                                *)
(***************************************************************************)
\* the data handed to decode_ascii85: up to MaxDataLen bytes, each a digit of
\* value 0 or 84, a 'z', a '~' or a space
MaxDataLen == 6
Ascii85Bytes == {33, 117, 122, 126, 32}
Ascii85Data == UNION {[1..n -> Ascii85Bytes] : n \in 0..MaxDataLen}

\* the strings shown with a font: up to MaxStringLen bytes
MaxStringLen == 4
ShownBytes == {0, 65, 66, 128}
ShownStrings == UNION {[1..n -> ShownBytes] : n \in 0..MaxStringLen}

\* the tables of ToUnicode and of Differences: codes of one and of two bytes,
\* strings of no, one and two characters
CodeMaps ==
  {None,
   Some([code \in {65, 66} |-> <<code>>]),
   Some([code \in {0, 66, 16706, 32768} |->
           IF code = 0 THEN <<>> ELSE IF code = 66 THEN B("fi") ELSE <<code>>])}

Fonts ==
  {[base_font |-> B("Unknown"), subtype |-> B(subtype), encoding |-> B(encoding),
    to_unicode |-> to_unicode, differences |-> differences] :
     subtype \in {"Type0", "Type1"},
     encoding \in {"Identity-H", "Identity-V", "WinAnsiEncoding", "MacRomanEncoding",
                   "StandardEncoding"},
     to_unicode \in CodeMaps,
     differences \in {None, Some([code \in {65} |-> B("?")])}}

\* the elements of a TJ array: as written, and the string or the number
\* (in thousandths) that is written
TJElements ==
  {[src |-> "(A)", string |-> TRUE, text |-> "A", milli |-> 0],
   [src |-> "(b c)", string |-> TRUE, text |-> "b c", milli |-> 0],
   [src |-> "-250", string |-> FALSE, text |-> "", milli |-> -250000],
   [src |-> "-200.5", string |-> FALSE, text |-> "", milli |-> -200500],
   [src |-> "-200", string |-> FALSE, text |-> "", milli |-> -200000],
   [src |-> "-199.9", string |-> FALSE, text |-> "", milli |-> -199900],
   [src |-> "300", string |-> FALSE, text |-> "", milli |-> 300000]}

\* the TJ arrays: up to MaxArrayLen elements
MaxArrayLen == 3
TJArrays == UNION {[1..n -> TJElements] : n \in 0..MaxArrayLen}

\* a text object that shows an array with TJ, after a Tj or at its start
TJStream(before, array) ==
  B("BT ") \o B(before) \o B("[")
  \o Concat([k \in 1..Len(array) |-> B(array[k].src) \o B(" ")]) \o B("] TJ ET")

\* the operators that produce text, and the operator sequences of a text
\* object: up to MaxOperators of them
TextOperators == {"Tj", "TJ", "'", "\"", "Do"}
MaxOperators == 3
OperatorSequences == UNION {[1..n -> TextOperators] : n \in 1..MaxOperators}

\* the k-th operator of a sequence shows the k-th small letter; a Do draws the
\* k-th form, whose text is the k-th capital letter
Marker(op, k) == IF op = "Do" THEN 64 + k ELSE 96 + k

OperatorSource(op, k) ==
  CASE op = "Tj" -> B("(") \o <<96 + k>> \o B(") Tj ")
    [] op = "TJ" -> B("[(") \o <<96 + k>> \o B(")] TJ ")
    [] op = "'" -> B("(") \o <<96 + k>> \o B(") ' ")
    [] op = "\"" -> B("1 2 (") \o <<96 + k>> \o B(") \" ")
    [] op = "Do" -> B("/F") \o <<48 + k>> \o B(" Do ")

OperatorStream(ops) ==
  B("BT ") \o Concat([k \in 1..Len(ops) |-> OperatorSource(ops[k], k)]) \o B("ET")

\* the resources of a page with the forms F1, F2, .. as objects 11, 12, ..
FormResources ==
  DictInsert(EmptyDict, B("XObject"),
             PdfDictionary([name \in {B("F") \o <<48 + k>> : k \in 1..MaxOperators} |->
                              PdfReference(10 + name[2] - 48, 0)]))

FormObjects ==
  [ref \in {<<10 + k, 0>> : k \in 1..MaxOperators} |->
     PdfStream(DictInsert(EmptyDict, B("Subtype"), PdfName(B("Form"))),
               B("BT (") \o <<64 + ref[1] - 10>> \o B(") Tj ET"))]

\* the stream dictionaries handed to handle_stream_filters: /Filter written as
\* a name or as an array of one or two names, /DecodeParms left out or
\* written as null, as a dictionary, or as an array parallel to the filters
FilterForms == {"a name", "an array of one", "an array of two"}
ParmsForms == {"absent", "null", "a dictionary", "an array", "an array of null"}

PredictorParms ==
  PdfDictionary(DictInsert(DictInsert(EmptyDict, B("Predictor"), PdfNumber(12000)),
                           B("Columns"), PdfNumber(4000)))

HexName == PdfName(B("ASCIIHexDecode"))

FilterEntry(form) ==
  CASE form = "a name" -> HexName
    [] form = "an array of one" -> PdfArray(<<HexName>>)
    [] form = "an array of two" -> PdfArray(<<HexName, HexName>>)

\* the parameters of the last filter are the predictor's
ParmsEntry(filter_form, parms_form) ==
  CASE parms_form = "null" -> PdfNull
    [] parms_form = "a dictionary" -> PredictorParms
    [] parms_form = "an array" ->
         IF filter_form = "an array of two" THEN PdfArray(<<PdfNull, PredictorParms>>)
         ELSE PdfArray(<<PredictorParms>>)
    [] parms_form = "an array of null" ->
         IF filter_form = "an array of two" THEN PdfArray(<<PdfNull, PdfNull>>)
         ELSE PdfArray(<<PdfNull>>)

FilterDict(filter_form, parms_form) ==
  IF parms_form = "absent" THEN DictInsert(EmptyDict, B("Filter"), FilterEntry(filter_form))
  ELSE DictInsert(DictInsert(EmptyDict, B("Filter"), FilterEntry(filter_form)),
                  B("DecodeParms"), ParmsEntry(filter_form, parms_form))

\* the rows of the predictor, encoded once for each filter
FilterData(filter_form) ==
  IF filter_form = "an array of two" THEN HexEncode(HexEncode(PredictedRows) \o B(">")) \o B(">")
  ELSE HexEncode(PredictedRows) \o B(">")

\* one dictionary for two filters is not among the combinations
FilterCalls ==
  {[fn |-> "handle_stream_filters", stream_dict |-> FilterDict(forms[1], forms[2]),
    data |-> FilterData(forms[1]), filter_form |-> forms[1], parms_form |-> forms[2]] :
     forms \in (FilterForms \X ParmsForms) \ {<<"an array of two", "a dictionary">>}}

\* the SignerInfo handed to extract_signed_attributes_der: a [0] block whose
\* content has one of these lengths, the lengths at which the form of a DER
\* length changes among them
AttrsLengths == {0, 1, 127, 128, 200, 255, 256, 1000, 65535, 65536}
AttrsContent(len) == [k \in 1..len |-> k % 251]
AttrsBlock(len) ==
  [t |-> "Unknown", class |-> "ContextSpecific", constructed |-> TRUE, off |-> 0,
   tag |-> 0, body |-> AttrsContent(len)]

AttrsCalls ==
  {[fn |-> "extract_signed_attributes_der", signer_info |-> <<AttrsBlock(len)>>,
    len |-> len] : len \in AttrsLengths}

\* two tokens with one byte between them, as an array for the object parser
\* and as they are for the tokenizer of content streams; the byte is one of
\* SP, TAB, LF, CR, FF and NUL
Separators == {32, 9, 10, 13, 12, 0}
FirstTokens == {"1", "/A", "(s)", "BT", "true"}
SecondTokens == {"2", "/B", "(t)", "Tj", "]"}

Separated(first, sep, second) == B(first) \o <<sep>> \o B(second)

SeparatorCalls ==
  {[fn |-> "parse_object", data |-> B("[") \o Separated(first, sep, second) \o B("]"),
    first |-> first, sep |-> sep, second |-> second] :
     first \in FirstTokens, sep \in Separators, second \in SecondTokens}
  \cup {[fn |-> "parse_all", data |-> Separated(first, sep, second),
          first |-> first, sep |-> sep, second |-> second] :
          first \in FirstTokens, sep \in Separators, second \in SecondTokens}

\* literal strings: between the parentheses up to MaxStringLen bytes, each a
\* backslash, an octal digit, the digit 8, the letter n or the letter A
LiteralBytes == {92, 49, 55, 56, 110, 65}
LiteralBodies == UNION {[1..n -> LiteralBytes] : n \in 0..MaxStringLen}

LiteralCalls ==
  {[fn |-> fn, data |-> B("(") \o body \o B(")"), body |-> body] :
     fn \in {"parse_string", "token_parse_string"}, body \in LiteralBodies}

Calls ==
  FilterCalls \cup AttrsCalls \cup SeparatorCalls \cup LiteralCalls \cup
  {[fn |-> "decode_ascii85", data |-> data, overflow_checks |-> checks] :
     data \in Ascii85Data, checks \in BOOLEAN}
  \cup {[fn |-> "decode_with_font", bytes |-> bytes, font |-> font] :
          bytes \in ShownStrings, font \in Fonts}
  \cup {[fn |-> "extract_text_from_stream", stream_data |-> TJStream(before, array),
         fonts |-> EmptyDict, resources |-> EmptyDict, objects |-> NoObjects,
         shows |-> "an array", before |-> before, array |-> array] :
          before \in {"", "(x) Tj "}, array \in TJArrays}
  \cup {[fn |-> "extract_text_from_stream", stream_data |-> OperatorStream(ops),
         fonts |-> EmptyDict, resources |-> FormResources, objects |-> FormObjects,
         shows |-> "operators", ops |-> ops] :
          ops \in OperatorSequences}

\* no file is being read
NoFile ==
  /\ objects = NoObjects
  /\ walk = NoWalk
  /\ page_texts = Pending
  /\ signer = BaseConfig
  /\ pdf_bytes = <<>>
  /\ debug_feature = FALSE
  /\ pc = "Call"
  /\ byte_range = Pending
  /\ signed_data = Pending
  /\ signature_at = Pending
  /\ signature_der = Pending
  /\ verifier_params = Pending
  /\ signature_valid = Pending
  /\ text_pages = Pending
  /\ result = Pending
  /\ original = None

CallInit ==
  /\ call \in Calls
  /\ ret = Pending
  /\ frames = <<>>
  /\ NoFile

\* decode_ascii85 in a build with or without overflow checks
DecodeAscii85 ==
  /\ call.fn = "decode_ascii85"
  /\ ret = Pending
  /\ ret' = decode_ascii85(call.data, call.overflow_checks)
  /\ UNCHANGED <<call, frames, file_vars, tree_vars>>

\* decode_with_font; ret holds the String it returns
DecodeWithFont ==
  /\ call.fn = "decode_with_font"
  /\ ret = Pending
  /\ ret' = Ok(decode_with_font(call.bytes, call.font))
  /\ UNCHANGED <<call, frames, file_vars, tree_vars>>

\* extract_text_from_stream on the content of a page
ExtractTextFromStream ==
  /\ call.fn = "extract_text_from_stream"
  /\ ret = Pending
  /\ ret' = extract_text_from_stream(call.stream_data, call.fonts, call.resources,
                                     call.objects)
  /\ UNCHANGED <<call, frames, file_vars, tree_vars>>

\* handle_stream_filters on the dictionary and the data of a stream
HandleStreamFilters ==
  /\ call.fn = "handle_stream_filters"
  /\ ret = Pending
  /\ ret' = handle_stream_filters(call.stream_dict, call.data)
  /\ UNCHANGED <<call, frames, file_vars, tree_vars>>

\* extract_signed_attributes_der on the blocks of a SignerInfo
ExtractSignedAttributesDer ==
  /\ call.fn = "extract_signed_attributes_der"
  /\ ret = Pending
  /\ ret' = extract_signed_attributes_der(call.signer_info)
  /\ UNCHANGED <<call, frames, file_vars, tree_vars>>

\* Parser::parse_object on data, from its start
ParseObject ==
  /\ call.fn = "parse_object"
  /\ ret = Pending
  /\ ret' = parse_object(call.data, 0)
  /\ UNCHANGED <<call, frames, file_vars, tree_vars>>

\* TokenParser::parse_all on data; ret holds the tokens it returns
ParseAll ==
  /\ call.fn = "parse_all"
  /\ ret = Pending
  /\ ret' = Ok(parse_all(call.data))
  /\ UNCHANGED <<call, frames, file_vars, tree_vars>>

\* Parser::parse_string on data, from its start
ParseString ==
  /\ call.fn = "parse_string"
  /\ ret = Pending
  /\ ret' = parse_string(call.data, 0)
  /\ UNCHANGED <<call, frames, file_vars, tree_vars>>

\* TokenParser::parse_string on data, from its start; ret holds the token, if
\* any, and the position reached
TokenParseString ==
  /\ call.fn = "token_parse_string"
  /\ ret = Pending
  /\ ret' = Ok(token_parse_string(call.data, 0))
  /\ UNCHANGED <<call, frames, file_vars, tree_vars>>

CallNext ==
  \/ ParseString
  \/ TokenParseString
  \/ ParseObject
  \/ ParseAll
  \/ HandleStreamFilters
  \/ ExtractSignedAttributesDer
  \/ DecodeAscii85
  \/ DecodeWithFont
  \/ ExtractTextFromStream

CallSpec == CallInit /\ [][CallNext]_vars

(***************************************************************************)
(* extractor/src/text.rs: extract_text_from_stream with the calls it makes *)
(* through process_xobject, one operator at a time.  frames is the call    *)
(* stack: one frame for every extract_text_from_stream that has not        *)
(* returned.                                                               *)
(***************************************************************************)
\* the forms F1, F2, F3, objects 11, 12, 13: a form shows its capital letter and
\* then draws the form that draws gives for it, if it gives one
FormIds == {1, 2, 3}
DrawChoices == [FormIds -> {0} \cup FormIds]

FormData(k, drawn) ==
  B("BT (") \o <<64 + k>> \o B(") Tj ET")
  \o (IF drawn = 0 THEN <<>> ELSE B(" /F") \o <<48 + drawn>> \o B(" Do"))

\* the forms with or without /Resources of their own
FormTable(draws, with_resources) ==
  [ref \in {<<10 + k, 0>> : k \in FormIds} |->
     PdfStream(
       IF with_resources
       THEN DictInsert(DictInsert(EmptyDict, B("Subtype"), PdfName(B("Form"))),
                       B("Resources"), PdfDictionary(FormResources))
       ELSE DictInsert(EmptyDict, B("Subtype"), PdfName(B("Form"))),
       FormData(ref[1] - 10, draws[ref[1] - 10]))]

\* the content of a page that shows a letter and draws form k
PageData(k) == B("BT (a) Tj ET /F") \o <<48 + k>> \o B(" Do")

\* what parse_all returns for the content of the page and of every form
ParsedStreams(k, draws) ==
  [data \in {PageData(k)} \cup {FormData(j, draws[j]) : j \in FormIds} |-> parse_all(data)]

DrawCalls ==
  {[fn |-> "extract_text_from_stream",
    stream_data |-> PageData(k),
    fonts |-> EmptyDict, resources |-> FormResources,
    objects |-> FormTable(draws, with_resources),
    parsed |-> ParsedStreams(k, draws),
    shows |-> "forms", first |-> k, draws |-> draws, with_resources |-> with_resources] :
     k \in FormIds, draws \in DrawChoices, with_resources \in BOOLEAN}

\* the frames the stack of the process has room for
MaxCallDepth == 4

DrawInit ==
  /\ call \in DrawCalls
  /\ ret = Pending
  /\ frames = <<>>
  /\ NoFile

\* the locals of extract_text_from_stream at its first operator; the tokens are
\* those parse_all returns for stream_data
Frame(stream_data, fonts, resources) ==
  [tokens |-> call.parsed[stream_data], i |-> 0, fonts |-> fonts, resources |-> resources,
   s |-> [text |-> <<>>, current_font |-> None, in_text |-> FALSE, text_line |-> <<>>,
          status |-> "Ok"]]

\* the form that the token at index i of a frame draws, when it is a Do after
\* a name
DrawnForm(f) ==
  IF /\ f.i >= 1
     /\ f.i < Len(f.tokens)
     /\ f.tokens[f.i + 1] = TokOperator(B("Do"))
     /\ f.tokens[f.i].k = "Name"
  THEN FormXObject(f.tokens[f.i].name, f.resources, call.objects)
  ELSE Ok(None)

\* the for loop is over, or the model cannot follow it further
LoopOver(f) == f.i >= Len(f.tokens) \/ f.s.status # "Ok"

\* extract_text_from_stream is called on the content of the page
EnterStream ==
  /\ call.fn = "extract_text_from_stream"
  /\ ret = Pending
  /\ frames = <<>>
  /\ frames' = <<Frame(call.stream_data, call.fonts, call.resources)>>
  /\ UNCHANGED <<call, ret, file_vars, tree_vars>>

\* one turn of the for loop on a token that draws no form
NextToken ==
  /\ frames # <<>>
  /\ ret = Pending
  /\ LET f == frames[Len(frames)]
     IN  /\ ~LoopOver(f)
         /\ DrawnForm(f) = Ok(None)
         /\ frames' = [frames EXCEPT ![Len(frames)] =
                         [f EXCEPT !.i = @ + 1,
                                   !.s = IF f.tokens[f.i + 1].k = "Operator"
                                         THEN TextOperator(f.tokens, f.i, f.s, f.fonts,
                                                           f.resources, call.objects, 0)
                                         ELSE f.s]]
  /\ UNCHANGED <<call, ret, file_vars, tree_vars>>

\* Do on a form: process_xobject calls extract_text_from_stream on its data
DoForm ==
  /\ frames # <<>>
  /\ ret = Pending
  /\ Len(frames) < MaxCallDepth
  /\ LET f == frames[Len(frames)]
         form == DrawnForm(f)
     IN  /\ ~LoopOver(f)
         /\ IsOk(form)
         /\ form.val.some
         /\ frames' = Append(frames, Frame(form.val.v.data, f.fonts, form.val.v.resources))
  /\ UNCHANGED <<call, ret, file_vars, tree_vars>>

\* Do on a form when the stack has no room for one more frame: the process is
\* aborted
StackOverflow ==
  /\ frames # <<>>
  /\ ret = Pending
  /\ Len(frames) = MaxCallDepth
  /\ LET f == frames[Len(frames)]
         form == DrawnForm(f)
     IN  /\ ~LoopOver(f)
         /\ IsOk(form)
         /\ form.val.some
  /\ ret' = [kind |-> "Abort", err |-> "stack overflow"]
  /\ UNCHANGED <<call, frames, file_vars, tree_vars>>

\* extract_text_from_stream returns its text: to the Do arm of the stream that
\* drew the form, or to the caller of the first call
ReturnText ==
  /\ frames # <<>>
  /\ ret = Pending
  /\ LoopOver(frames[Len(frames)])
  /\ LET f == frames[Len(frames)]
         xobj_text == IF f.s.status # "Ok" THEN OutOfModel("font or form")
                      ELSE Ok(FlushLine(f.s).text)
     IN  IF Len(frames) = 1
         THEN /\ ret' = xobj_text
              /\ frames' = <<>>
         ELSE /\ ret' = ret
              /\ frames' =
                   [SubSeq(frames, 1, Len(frames) - 1) EXCEPT ![Len(frames) - 1] =
                      [@ EXCEPT !.i = @ + 1,
                                !.s = DrawXObject(@, IF IsOk(xobj_text)
                                                     THEN Ok(Some(xobj_text.val))
                                                     ELSE xobj_text)]]
  /\ UNCHANGED <<call, file_vars, tree_vars>>

DrawNext ==
  \/ EnterStream
  \/ NextToken
  \/ DoForm
  \/ StackOverflow
  \/ ReturnText

\* a call that is made returns or aborts: no step is put off for ever
DrawSpec == DrawInit /\ [][DrawNext]_vars /\ WF_vars(DrawNext)

(***************************************************************************)
(* Properties of the functions called on their own                         *)
(***************************************************************************)
\* the bytes of the data that are read as digits or 'z': those before the
\* first '~', whitespace left out
Ascii85Payload(data) ==
  SelectSeq(Slice(data, 0, FirstWhere(data, 0, Len(data), {126}, TRUE)),
            LAMBDA b : b \notin AsciiWhitespace)

\* groups of five digits, 'z' only between groups, and a last group of fewer
\* than five digits
RECURSIVE WellFormed85(_)
WellFormed85(chars) ==
  IF chars = <<>> THEN TRUE
  ELSE IF Head(chars) = 122 THEN WellFormed85(Tail(chars))
  ELSE IF Len(chars) < 5 THEN \A k \in 1..Len(chars) : chars[k] \in 33..117
  ELSE /\ \A k \in 1..5 : chars[k] \in 33..117
       /\ WellFormed85(SubSeq(chars, 6, Len(chars)))

\* n * 85 + d for a number n written in base 256, least significant byte first
RECURSIVE Times85Plus(_, _)
Times85Plus(n, d) ==
  IF n = <<>> THEN <<>>
  ELSE <<(Head(n) * 85 + d) % 256>> \o Times85Plus(Tail(n), (Head(n) * 85 + d) \div 256)

\* the number five base-85 digits write, in base 256, least significant first
RECURSIVE Number85(_, _)
Number85(chars, n) ==
  IF chars = <<>> THEN n ELSE Number85(Tail(chars), Times85Plus(n, Head(chars) - 33))

\* the 32-bit value of a group of five digits, most significant byte first
Value32(chars) ==
  LET n == Number85(chars, <<0, 0, 0, 0, 0>>) IN <<n[4], n[3], n[2], n[1]>>

\* the bytes a well-formed payload stands for: four for a group of five digits
\* and for 'z', the first k - 1 of the padded group for k last digits
RECURSIVE Ascii85Meaning(_)
Ascii85Meaning(chars) ==
  IF chars = <<>> THEN <<>>
  ELSE IF Head(chars) = 122 THEN <<0, 0, 0, 0>> \o Ascii85Meaning(Tail(chars))
  ELSE IF Len(chars) < 5
    THEN SubSeq(Value32(chars \o [k \in 1..(5 - Len(chars)) |-> 117]), 1, Len(chars) - 1)
  ELSE Value32(SubSeq(chars, 1, 5)) \o Ascii85Meaning(SubSeq(chars, 6, Len(chars)))

Ascii85Returned == call.fn = "decode_ascii85" /\ ret # Pending

\* C13: decode_ascii85 gives, for a last group of k < 5 digits, the first k - 1
\* big-endian bytes of the 32-bit value of the group padded with 'u', for a 'z'
\* between groups four zero bytes, and reads nothing from the first '~' on.
Ascii85DecodesAsSpecified ==
  (Ascii85Returned /\ WellFormed85(Ascii85Payload(call.data)))
    => ret = Ok(Ascii85Meaning(Ascii85Payload(call.data)))

\* the font is CID-like: its Subtype is Type0 or its Encoding an Identity one
CidLike(font) ==
  font.subtype = B("Type0") \/ font.encoding \in {B("Identity-H"), B("Identity-V")}

\* what a code emits: its string in ToUnicode, U+FFFD when there is none
Emitted(font, code) ==
  IF font.to_unicode.some /\ code \in DOMAIN font.to_unicode.v
  THEN font.to_unicode.v[code] ELSE <<65533>>

\* the strings of the big-endian 16-bit codes of a string, in order
CodesEmitted(font, bytes) ==
  Concat([k \in 1..(Len(bytes) \div 2) |->
            Emitted(font, 256 * bytes[2 * k - 1] + bytes[2 * k])])

\* C15: with a CID-like font a shown string of whole 16-bit codes is decoded
\* two bytes at a time, big-endian: every code of ToUnicode gives its string
\* and every other code, or every code without ToUnicode, gives U+FFFD.
CidStringDecodedByPairs ==
  (call.fn = "decode_with_font" /\ ret # Pending /\ CidLike(call.font)
   /\ Len(call.bytes) % 2 = 0)
    => ret = Ok(CodesEmitted(call.font, call.bytes))

\* <0041><0042> has been decoded to "AB" with a Type0 font whose ToUnicode has
\* 0x0041 -> A and 0x0042 -> B
AbDecoded ==
  /\ call.fn = "decode_with_font"
  /\ call.bytes = <<0, 65, 0, 66>>
  /\ call.font.subtype = B("Type0")
  /\ call.font.to_unicode = Some([code \in {65, 66} |-> <<code>>])
  /\ ret = Ok(B("AB"))

\* what an element of a TJ array adds to the pending line: a string its
\* characters, a number below -200 one space, any other number nothing
AddedByElement(element) ==
  IF element.string THEN B(element.text)
  ELSE IF element.milli < -200000 THEN B(" ")
  ELSE <<>>

ArrayShown ==
  call.fn = "extract_text_from_stream" /\ call.shows = "an array" /\ ret # Pending

\* C16: a TJ array inside a text object adds to the pending line, in array
\* order, the decoded text of every string and exactly one space for every
\* number strictly less than -200, and nothing for any other number.
TJArrayAddsStringsAndSpaces ==
  ArrayShown
    => ret = Ok((IF call.before = "" THEN <<>> ELSE B("x"))
                \o Concat([k \in 1..Len(call.array) |-> AddedByElement(call.array[k])]))

\* an array of a string, a number below -200 and a number that is not has been
\* shown after a Tj
SpacedArrayShown ==
  /\ ArrayShown
  /\ call.before # ""
  /\ Len(call.array) = 3
  /\ call.array[1].string
  /\ call.array[2].milli < -200000
  /\ call.array[3].milli = -200000
  /\ ret = Ok(B("x") \o B(call.array[1].text) \o B(" "))

\* the first position of a character in a text, 0 when it is not there
PositionIn(text, ch) ==
  IF \E p \in 1..Len(text) : text[p] = ch
  THEN CHOOSE p \in 1..Len(text) : text[p] = ch /\ \A q \in 1..(p - 1) : text[q] # ch
  ELSE 0

OperatorsShown ==
  call.fn = "extract_text_from_stream" /\ call.shows = "operators" /\ ret # Pending

\* C20: within a page the text of an earlier text-producing operator (Tj, TJ,
\* ', ", Do of a form XObject) comes before the text of a later one, also when
\* a Do comes while a text line is pending.
TextFollowsOperatorOrder ==
  OperatorsShown
    => /\ IsOk(ret)
       /\ \A j, k \in 1..Len(call.ops) :
            j < k => /\ PositionIn(ret.val, Marker(call.ops[j], j)) > 0
                     /\ PositionIn(ret.val, Marker(call.ops[j], j))
                          < PositionIn(ret.val, Marker(call.ops[k], k))

FiltersHandled == call.fn = "handle_stream_filters" /\ ret # Pending

\* the rows with the predictor bytes taken off: what the PNG predictor None
\* over four columns leaves
UnpredictedRows == B("BT (Hi) Tj ET   ")

\* C21: handle_stream_filters accepts /Filter as a name or an array of names
\* with /DecodeParms as a dictionary, a parallel array or null: the predictor
\* parameters of a filter are applied after that filter, and null (or no
\* /DecodeParms) means the filters' output is returned as it is.
FilterCombinationsAccepted ==
  FiltersHandled
    => ret = Ok(IF call.parms_form \in {"a dictionary", "an array"} THEN UnpredictedRows
                ELSE PredictedRows)

\* the definite-form length octets of DER for a length below 2^24
DerLength(len) ==
  IF len < 128 THEN <<len>>
  ELSE IF len < 256 THEN <<129, len>>
  ELSE IF len < 65536 THEN <<130, len \div 256, len % 256>>
  ELSE <<131, len \div 65536, (len \div 256) % 256, len % 256>>

AttrsExtracted == call.fn = "extract_signed_attributes_der" /\ ret # Pending

\* C22: the bytes hashed for the signed attributes are 0x31, the correct DER
\* encoding of the length of the content of the [0] signedAttrs field, and
\* that content unchanged, whatever the length of the content.
SignedAttrsAreReencodedAsSet ==
  AttrsExtracted
    => ret = Ok(<<49>> \o DerLength(call.len) \o call.signer_info[1].body)

SeparatedParsed ==
  call.fn \in {"parse_object", "parse_all"} /\ "sep" \in DOMAIN call /\ ret # Pending

\* C23: SP, TAB, LF, CR, FF and NUL are whitespace to both lexers: two tokens
\* with any one of these bytes between them are read, by the object parser and
\* by the tokenizer of content streams, as they are read with a space between
\* them.
NulIsWhitespace ==
  SeparatedParsed
    => ret = IF call.fn = "parse_object"
             THEN parse_object(B("[") \o Separated(call.first, 32, call.second) \o B("]"), 0)
             ELSE Ok(parse_all(Separated(call.first, 32, call.second)))

LiteralParsed == call.fn \in {"parse_string", "token_parse_string"} /\ ret # Pending

\* the bytes a lexer returned for a literal string, if it returned a string
StringOf(fn, r) ==
  IF fn = "parse_string"
  THEN IF IsOk(r) THEN Some(r.val.obj.bytes) ELSE None
  ELSE IF r.val.tok.some THEN Some(r.val.tok.v.bytes) ELSE None

\* C24: the object parser and the tokenizer of content streams decode the
\* escapes of a literal string, the octal ones of one to three digits
\* included, to the same bytes: what either returns for a literal string is
\* what the other returns for it.
LiteralStringsDecodeAlike ==
  LiteralParsed
    => StringOf(call.fn, ret)
         = IF call.fn = "parse_string"
           THEN StringOf("token_parse_string", Ok(token_parse_string(call.data, 0)))
           ELSE StringOf("parse_string", parse_string(call.data, 0))

\* the file is the plain one with, before its end, an object stream or a
\* cross-reference stream whose filter is not known or fails
SideStreamFilterFails ==
  /\ signer.trailer \in ObjStmTrailers \cup {XRefUnknownFilter}
  /\ [signer EXCEPT !.trailer = PlainFile.trailer] = PlainFile

\* C25: a filter that is unknown or fails on a stream that is not a page's
\* content (an object stream, a cross-reference stream) is tolerated: the
\* stream is skipped and extract_text returns the text of the pages.
SideStreamFilterFailureTolerated ==
  (TextReturned /\ SideStreamFilterFails) => text_pages = Ok(<<B("Hello")>>)

\* the steps of extract_text_from_stream return what the function returns,
\* where the function is followed to the end
StepsAreExtractTextFromStream ==
  (call.fn = "extract_text_from_stream" /\ "draws" \in DOMAIN call /\ IsOk(ret))
    => Let(extract_text_from_stream(call.stream_data, call.fonts, call.resources,
                                    call.objects),
           LAMBDA text : IsOk(text) => ret = text)

\* the chain of forms drawn from the page comes back to a form it has passed
RECURSIVE ChainRepeats(_, _, _)
ChainRepeats(draws, k, passed) ==
  IF k = 0 THEN FALSE
  ELSE IF k \in passed THEN TRUE
  ELSE ChainRepeats(draws, draws[k], passed \cup {k})

FormDrawsItself ==
  /\ "draws" \in DOMAIN call
  /\ call.with_resources
  /\ ChainRepeats(call.draws, call.first, {})

\* C26: extract_text_from_stream returns for every input: a form whose content
\* draws the form itself, directly or through other forms, does not make the
\* calls of process_xobject and extract_text_from_stream go on without end.
TextExtractionTerminates == <>(ret # Pending /\ ret.kind # "Abort")

\* verify_pdf_signature is over
SignatureChecked == pc \in {"Verified", "Done"}

\* C27: verify_pdf_signature is total: for every input it returns Ok(bool) or
\* Err(message) and is never aborted by an index or a slice out of range,
\* whether the SignerInfo has fewer than three elements, a certificate or a
\* SubjectPublicKeyInfo has a single element, or an offset and a length of
\* /ByteRange add up to more than the machine word.
VerificationIsTotal == SignatureChecked => signature_valid.kind \in {"Ok", "Err"}

\* the file is the one that verifies, with 0x00 bytes after the CMS structure
\* in /Contents
ZeroPadded == signer \in {[BaseConfig EXCEPT !.der = padding] : padding \in ZeroPaddings}

\* C28: what verify_pdf_signature returns does not depend on the number, even
\* or odd, of 0x00 bytes that follow the CMS structure in the /Contents hex
\* string: the decoder still yields the SignedData as its first block and the
\* padded file verifies as the file without padding does.
ZeroPaddingIsIgnored ==
  (SignatureChecked /\ ZeroPadded)
    => /\ IsOk(verifier_params)
       /\ signature_valid = verify_pdf_signature(FileOf(BaseConfig), debug_feature)

\* the groups of five digits whose value decode_ascii85 computes: those it reads
\* before a byte it rejects, and the last one padded with 'u'
RECURSIVE AcceptedGroups(_, _)
AcceptedGroups(chars, tuple) ==
  IF chars = <<>>
    THEN IF tuple = <<>> THEN {} ELSE {tuple \o [k \in 1..(5 - Len(tuple)) |-> 117]}
  ELSE IF Head(chars) = 122 /\ tuple = <<>> THEN AcceptedGroups(Tail(chars), tuple)
  ELSE IF Head(chars) \notin 33..117 THEN {}
  ELSE IF Len(tuple) < 4 THEN AcceptedGroups(Tail(chars), Append(tuple, Head(chars)))
  ELSE {Append(tuple, Head(chars))} \cup AcceptedGroups(Tail(chars), <<>>)

\* the number the five digits write does not fit 32 bits
Above32Bits(group) == Number85(group, <<0, 0, 0, 0, 0>>)[5] # 0

\* C29: in decode_ascii85 the value d0*85^4 + d1*85^3 + d2*85^2 + d3*85 + d4
\* of a group is at most 2^32 - 1 for every group the decoder accepts, the
\* groups padded with 'u' included, so no 32-bit overflow occurs on any input.
GroupValuesFit32Bits ==
  Ascii85Returned
    => /\ \A group \in AcceptedGroups(Ascii85Payload(call.data), <<>>) : ~Above32Bits(group)
       /\ ret.kind # "Panic"

\* the reference in /Root of the last trailer of the file, if there is one
LastTrailerRoot ==
  IF Occurrences(B("trailer")) = {} THEN None
  ELSE LET at == CHOOSE i \in Occurrences(B("trailer")) :
                   \A k \in Occurrences(B("trailer")) : k <= i
           d == parse_dictionary(pdf_bytes, skip_whitespace_and_comments(pdf_bytes, at + 7))
       IN  IF IsOk(d) /\ DictHas(d.val.dict, B("Root"), "Reference")
           THEN Some(RefOf(d.val.dict[B("Root")])) ELSE None

\* C30: when parse_pdf succeeds the object table holds every indirect object
\* written in the file, those after the first xref or trailer keyword
\* included, and the /Root of the last trailer is never left unresolved when
\* its object is written in the file.
TableHoldsEveryObject ==
  /\ walk.status = "Ok" => ObjectsInFile \subseteq DOMAIN objects
  /\ (TextReturned /\ LastTrailerRoot.some /\ LastTrailerRoot.v \in ObjectsInFile)
       => text_pages # ParseError("Could not resolve root reference")

====
